---- MODULE Spec2Model ----
(***************************************************************************)
(* Activity-aware privacy blocking (ignition): the privacy state machine   *)
(* of privacy_state_manager.py, the active-activity table, health monitor  *)
(* and admission check of activity_detector.py, and the poll cycle of      *)
(* process_monitor.py that feeds them.                                     *)
(*                                                                         *)
(* Confidences are integers in thousandths (ONE = 1.0).  Time is in        *)
(* seconds and advances by Quantum.  Pattern matching is represented by    *)
(* its result: a process observation carries the best match the loaded     *)
(* pattern set yields for it (the pattern set is configuration).           *)
(***************************************************************************)
EXTENDS Integers, Sequences, FiniteSets, TLC

(* ------------------------------ bounds -------------------------------- *)
MaxPid == 1
MaxHist == 2
MaxTime == 1
Quantum == 310
MaxTable == 2
MaxLineage == 2
MaxPatterns == 2
MaxSamples == 3
MaxBurst == 7
MaxConfigEntries == 2
MaxStarts == 3
MaxReuse == 2

(* ------------------------- program constants -------------------------- *)
ONE == 1000
HIGH_CONFIDENCE == 900
MEDIUM_CONFIDENCE == 700
LOW_CONFIDENCE == 500
SUSPICIOUS_THRESHOLD == 300
MIN_CONFIDENCE == 100
FALLBACK_PERCENT == 80
activity_confidence_threshold == 700
STRICT_DOMAIN_CONFIDENCE == 900
startup_safety_buffer == 300
STATE_MAX_AGE == 3600
short_window == 300
medium_window == 900
long_window == 3600
MAX_RECENT_ERRORS == 5

LINEAGE_CAP == 50
container_init_pid == 1

privacy_enabled == TRUE

allowed_domains == {"civitai.com", "huggingface.co"}
startup_domains == {"github.com"}

PrivacyState ==
    {"startup", "downloads_active", "activity_detected", "strict", "emergency_block"}

PolicyAction ==
    {"allow_unrestricted", "allow_with_monitoring", "strict_allowlist",
     "emergency_review", "block_all"}

VARIABLES
    now,                \* time.time()
    current_state,      \* PrivacyStateManager.current_state
    startup_time,       \* PrivacyStateManager.startup_time
    monitoring_only,    \* config["monitoring_only"]
    state_file,         \* contents of /tmp/ignition_privacy_state, or NoFile
    loop_pc,            \* run_monitoring_loop: "constructed" | "looping"
    activity_detector,  \* TRUE when PrivacyStateManager.activity_detector is set
    process_monitor,    \* ActivityDetector.process_monitor: "none" | "initial" | "polling"
    processes,          \* keys of ProcessTree.processes
    active_activities,  \* ActivityDetector.active_activities, in insertion order
    detection_history,  \* SmartHealthCheck.detection_history
    error_history,      \* SmartHealthCheck.error_history
    last,               \* the operation that ran last, with its inputs
    policy_query,       \* an evaluation of get_policy_action
    allowlist_query,    \* an evaluation of get_current_allowlist
    admission,          \* an evaluation of should_allow_connection
    evaluation          \* an evaluation of another function: its arguments and result

mgr_vars == <<current_state, startup_time, monitoring_only, state_file, loop_pc,
              activity_detector>>
det_vars == <<process_monitor, processes, active_activities, detection_history,
              error_history>>
qry_vars == <<policy_query, allowlist_query, admission, evaluation>>
vars == <<now, mgr_vars, det_vars, last, qry_vars>>

NoFile == [exists |-> FALSE]
NoMatch == [matched |-> FALSE]
NoQuery == [asked |-> FALSE]

(* ----------------------------- helpers -------------------------------- *)
Pids == 1..MaxPid

Min(S) == CHOOSE x \in S : \A y \in S : x <= y

RECURSIVE SetToSeq(_)
SetToSeq(S) == IF S = {} THEN <<>> ELSE <<Min(S)>> \o SetToSeq(S \ {Min(S)})

RECURSIVE Gcd(_, _)
Gcd(a, b) == IF b = 0 THEN a ELSE Gcd(b, a % b)

Lcm(a, b) == (a * b) \div Gcd(a, b)

RECURSIVE LcmUpTo(_)
LcmUpTo(n) == IF n <= 1 THEN 1 ELSE Lcm(n, LcmUpTo(n - 1))

(* ------------------- ConfidenceThresholds.get_policy_action ----------- *)
\* variant: the top breakpoint is exclusive
get_policy_action_exclusive(confidence) ==
    IF confidence > HIGH_CONFIDENCE THEN "allow_unrestricted"
    ELSE IF confidence >= MEDIUM_CONFIDENCE THEN "allow_with_monitoring"
    ELSE IF confidence >= LOW_CONFIDENCE THEN "strict_allowlist"
    ELSE IF confidence >= SUSPICIOUS_THRESHOLD THEN "emergency_review"
    ELSE "block_all"

get_policy_action(confidence) ==
    IF confidence >= HIGH_CONFIDENCE THEN "allow_unrestricted"
    ELSE IF confidence >= MEDIUM_CONFIDENCE THEN "allow_with_monitoring"
    ELSE IF confidence >= LOW_CONFIDENCE THEN "strict_allowlist"
    ELSE IF confidence >= SUSPICIOUS_THRESHOLD THEN "emergency_review"
    ELSE "block_all"

(* ----------------------------- ActivityPattern ------------------------ *)
\* Texts (commands, arguments, directories, rule strings) are atoms.  The
\* substring test `pattern_lower in text_lower` of _matches_pattern is the
\* relation below on the texts that occur; its basename test accepts nothing
\* the substring test rejects.  Rules with the "regex:" prefix do not occur.
ProperSubstrings ==
    {<<"python", "python3">>, <<"python", "python -m pip">>,
     <<"pip", "pip3">>, <<"pip", "python -m pip">>,
     <<"/ComfyUI", "/ComfyUI/custom_nodes">>}

matches_pattern(pattern, text) ==
    pattern = text \/ <<pattern, text>> \in ProperSubstrings

\* A process is [cmdline, cwd]; its command is cmdline[0].
command_of(proc_info) == Head(proc_info.cmdline)

\* pattern in ' '.join(cmdline), for a pattern without blanks
in_cmdline(pattern, proc_info) ==
    \E i \in 1..Len(proc_info.cmdline) : matches_pattern(pattern, proc_info.cmdline[i])

check_modifier(modifier, proc_info) ==
    CASE modifier = "from_comfyui_directory" -> matches_pattern("/ComfyUI", proc_info.cwd)
      [] modifier = "install_specific_package" ->
             \E i \in 1..(Len(proc_info.cmdline) - 1) : proc_info.cmdline[i] = "install"
      [] modifier = "uses_sudo" -> in_cmdline("sudo", proc_info)
      [] OTHER -> FALSE

RECURSIVE modifier_sum(_, _)
modifier_sum(confidence_modifiers, proc_info) ==
    IF confidence_modifiers = <<>> THEN 0
    ELSE (IF check_modifier(Head(confidence_modifiers).key, proc_info)
          THEN Head(confidence_modifiers).value ELSE 0)
         + modifier_sum(Tail(confidence_modifiers), proc_info)

\* the command rules of match, and its special case for pip run by python
command_rule_matches(pattern, proc_info) ==
    \E i \in 1..Len(pattern.command_patterns) :
        matches_pattern(pattern.command_patterns[i], command_of(proc_info))

python_pip_exemption(pattern, proc_info) ==
    /\ \E i \in 1..Len(pattern.command_patterns) :
          matches_pattern("python", pattern.command_patterns[i])
    /\ matches_pattern("python", command_of(proc_info))
    /\ in_cmdline("pip", proc_info)

\* variant: an ancestor scores once for every parent rule it matches
raw_confidence_per_parent_rule(pattern, proc_info, lineage) ==
    300
    + 300 * Cardinality({i \in 1..Len(pattern.arg_patterns) :
                            in_cmdline(pattern.arg_patterns[i], proc_info)})
    + 200 * Cardinality({i \in 1..Len(pattern.cwd_patterns) :
                            matches_pattern(pattern.cwd_patterns[i], proc_info.cwd)})
    + 200 * Cardinality({<<a, i>> \in (1..Len(lineage)) \X (1..Len(pattern.parent_patterns)) :
                            matches_pattern(pattern.parent_patterns[i], lineage[a])})
    + modifier_sum(pattern.confidence_modifiers, proc_info)

\* the confidence match has accumulated before it normalizes; lineage is the
\* sequence of commands get_lineage returns (the process itself first)
raw_confidence(pattern, proc_info, lineage) ==
    300
    + 300 * Cardinality({i \in 1..Len(pattern.arg_patterns) :
                            in_cmdline(pattern.arg_patterns[i], proc_info)})
    + 200 * Cardinality({i \in 1..Len(pattern.cwd_patterns) :
                            matches_pattern(pattern.cwd_patterns[i], proc_info.cwd)})
    + 200 * Cardinality({a \in 1..Len(lineage) :
                            \E i \in 1..Len(pattern.parent_patterns) :
                                matches_pattern(pattern.parent_patterns[i], lineage[a])})
    + modifier_sum(pattern.confidence_modifiers, proc_info)

\* variant: only the lower end is clamped
normalize_unbounded(confidence) == IF confidence < 0 THEN 0 ELSE confidence

\* min(1.0, max(0.0, confidence))
normalize(confidence) ==
    IF confidence < 0 THEN 0 ELSE IF confidence > ONE THEN ONE ELSE confidence

\* variant: the optional checks are scored without a command match
match_any_evidence(pattern, proc_info, lineage) ==
    [matched |-> TRUE,
     confidence |-> normalize((raw_confidence(pattern, proc_info, lineage)
                               * pattern.base_confidence) \div ONE)]

\* ActivityPattern.match: NoMatch for None, else the confidence (to the thousandth)
match(pattern, proc_info, lineage) ==
    IF ~(command_rule_matches(pattern, proc_info) \/ python_pip_exemption(pattern, proc_info))
    THEN NoMatch
    ELSE [matched |-> TRUE,
          confidence |-> normalize((raw_confidence(pattern, proc_info, lineage)
                                    * pattern.base_confidence) \div ONE)]

(* --------------------------- SmartHealthCheck ------------------------- *)
\* Scores are kept as exact integers: a window score is scaled by ScoreDen,
\* the weighted health score by 10 * ScoreDen.
Max(S) == CHOOSE x \in S : \A y \in S : y <= x
MaxEntries == Max({MaxTable, MaxHist, MaxSamples, MaxBurst})
HistLcm == LcmUpTo(MaxEntries)
ScoreDen == 10 * ONE * HistLcm

\* the counts _analyze_window takes over the entries with timestamp >= since:
\* total_detections, successful_detections and the confidence sum of the successes
\* sum(conf for _, success, conf in recent_detections if success)
RECURSIVE ConfSum(_, _)
ConfSum(history, since_timestamp) ==
    IF history = <<>> THEN 0
    ELSE (IF Head(history).timestamp >= since_timestamp /\ Head(history).success
          THEN Head(history).confidence ELSE 0)
         + ConfSum(Tail(history), since_timestamp)

WindowStats(history, since_timestamp) ==
    [total |-> Cardinality({i \in DOMAIN history :
                  history[i].timestamp >= since_timestamp}),
     successful |-> Cardinality({i \in DOMAIN history :
                       /\ history[i].timestamp >= since_timestamp
                       /\ history[i].success}),
     conf_sum |-> ConfSum(history, since_timestamp)]

\* variant: an entry on the boundary of the window is left out
analyze_window_open(history, since_timestamp) ==
    LET w == WindowStats(history, since_timestamp + 1)
    IN  IF w.total = 0 THEN ScoreDen
        ELSE 7 * w.successful * ((ONE * HistLcm) \div w.total)
             + (IF w.successful > 0
                THEN 3 * w.conf_sum * (HistLcm \div w.successful)
                ELSE 0)

\* variant: the window has no beginning, samples never leave it
analyze_window_all_time(history, since_timestamp) ==
    LET w == WindowStats(history, 0)
    IN  IF w.total = 0 THEN ScoreDen
        ELSE 7 * w.successful * ((ONE * HistLcm) \div w.total)
             + (IF w.successful > 0
                THEN 3 * w.conf_sum * (HistLcm \div w.successful)
                ELSE 0)

analyze_window(history, since_timestamp) ==
    \* 0.7 * success_rate + 0.3 * avg_confidence, 1.0 for an empty window
    LET w == WindowStats(history, since_timestamp)
    IN  IF w.total = 0 THEN ScoreDen
        ELSE 7 * w.successful * ((ONE * HistLcm) \div w.total)
             + (IF w.successful > 0
                THEN 3 * w.conf_sum * (HistLcm \div w.successful)
                ELSE 0)

get_health_score(history, t) ==
    5 * analyze_window(history, t - short_window)
    + 3 * analyze_window(history, t - medium_window)
    + 2 * analyze_window(history, t - long_window)

\* variant: the error count that triggers the fallback is reached one error early
should_fallback_at_limit(history, errors, t) ==
    \/ get_health_score(history, t) < 3 * ScoreDen
    \/ Len(SelectSeq(errors, LAMBDA e : e.timestamp > t - short_window)) >= MAX_RECENT_ERRORS

should_fallback(history, errors, t) ==
    \/ get_health_score(history, t) < 3 * ScoreDen
    \/ Len(SelectSeq(errors, LAMBDA e : e.timestamp > t - short_window)) > MAX_RECENT_ERRORS

\* the confidence threshold the monitor suggests; detect_activity stores it in
\* the context of the activity and compares nothing with it
get_adaptive_threshold(history, t) ==
    IF get_health_score(history, t) < 5 * ScoreDen THEN HIGH_CONFIDENCE
    ELSE IF get_health_score(history, t) < 7 * ScoreDen THEN MEDIUM_CONFIDENCE
    ELSE LOW_CONFIDENCE

cleanup_old_entries(entries, t) ==
    SelectSeq(entries, LAMBDA e : e.timestamp > t - long_window)

\* record_detection: the new detection_history and error_history
record_detection(history, errors, t, success, confidence, error_type) ==
    LET h == IF success
             THEN Append(history, [timestamp |-> t, success |-> TRUE, confidence |-> confidence])
             ELSE Append(history, [timestamp |-> t, success |-> FALSE, confidence |-> 0])
        e == IF ~success /\ error_type # ""
             THEN Append(errors, [timestamp |-> t, error_type |-> error_type])
             ELSE errors
    IN  [detection_history |-> cleanup_old_entries(h, t),
         error_history |-> cleanup_old_entries(e, t)]

(* ------------------------ process observations ------------------------ *)
\* What the classifier computes for one observed process: whether
\* _is_interesting_command accepts it, whether classifying it raises, and the
\* best match of the pattern loop of detect_activity (kind, confidence and
\* allowed domains of the best pattern), NoMatch when no pattern matched.
OtherProc == [interesting |-> FALSE, raises |-> FALSE, best |-> NoMatch]
UnmatchedProc == [interesting |-> TRUE, raises |-> FALSE, best |-> NoMatch]
RaisingProc == [interesting |-> TRUE, raises |-> TRUE, best |-> NoMatch]
PipProc ==
    [interesting |-> TRUE, raises |-> FALSE,
     best |-> [matched |-> TRUE, activity_type |-> "pip_install", confidence |-> 750,
               allowed_domains |-> {"pypi.org"}, duration_estimate |-> 180]]
\* a match just above the floor of detect_activity: a configured pattern of
\* base_confidence 0.4 whose command rule alone matched (0.3 * 0.4)
FaintProc ==
    [interesting |-> TRUE, raises |-> FALSE,
     best |-> [matched |-> TRUE, activity_type |-> "git_clone", confidence |-> 120,
               allowed_domains |-> {"github.com"}, duration_estimate |-> 120]]
Shapes == {OtherProc, UnmatchedProc, RaisingProc, PipProc}

(* -------------------------- ActivityDetector -------------------------- *)
NoActivity == [detected |-> FALSE]

TableIndex(table, pid) ==
    IF \E i \in 1..Len(table) : table[i].pid = pid
    THEN CHOOSE i \in 1..Len(table) : table[i].pid = pid
    ELSE 0

\* self.active_activities[pid] = activity : a dict keeps the position of a key
\* that is already present and appends a new key
TablePut(table, activity) ==
    LET i == TableIndex(table, activity.pid)
    IN  IF i = 0 THEN Append(table, activity) ELSE [table EXCEPT ![i] = activity]

\* del self.active_activities[pid]
TableDel(table, pid) == SelectSeq(table, LAMBDA a : a.pid # pid)

\* The pattern loop of detect_activity: patterns are tried in load order, and a
\* pattern replaces the best so far when its confidence is strictly greater
\* (best_confidence starts at 0.0).
RECURSIVE best_match_from(_, _, _, _, _)
best_match_from(patterns, i, proc_info, lineage, best) ==
    IF i > Len(patterns) THEN best
    ELSE LET confidence == match(patterns[i], proc_info, lineage)
             best_confidence == IF best.matched THEN best.confidence ELSE 0
         IN  best_match_from(patterns, i + 1, proc_info, lineage,
                 IF confidence.matched /\ confidence.confidence > best_confidence
                 THEN [matched |-> TRUE,
                       activity_type |-> patterns[i].activity_type,
                       confidence |-> confidence.confidence,
                       allowed_domains |-> patterns[i].allowed_domains,
                       duration_estimate |-> patterns[i].duration_estimate]
                 ELSE best)

best_match(patterns, proc_info, lineage) ==
    best_match_from(patterns, 1, proc_info, lineage, NoMatch)

\* variant: the policy action is taken from the confidence before the dampening
detect_activity_policy_of_best(pid, shape, pm, history, errors, t) ==
    IF pm = "none" THEN NoActivity
    ELSE IF ~shape.best.matched THEN NoActivity
    ELSE IF ~(shape.best.confidence > 0) \/ shape.best.confidence < MIN_CONFIDENCE
         THEN NoActivity
    ELSE LET adjusted_confidence ==
                 IF should_fallback(history, errors, t)
                 THEN (shape.best.confidence * FALLBACK_PERCENT) \div 100
                 ELSE shape.best.confidence
         IN  [detected |-> TRUE,
              pid |-> pid,
              activity_type |-> shape.best.activity_type,
              confidence |-> adjusted_confidence,
              policy_action |-> get_policy_action(shape.best.confidence),
              adaptive_threshold_used |-> get_adaptive_threshold(history, t),
              duration_estimate |-> shape.best.duration_estimate,
              allowed_domains |-> shape.best.allowed_domains]

\* variant: the fallback halves the confidence
detect_activity_halved(pid, shape, pm, history, errors, t) ==
    IF pm = "none" THEN NoActivity
    ELSE IF ~shape.best.matched THEN NoActivity
    ELSE IF ~(shape.best.confidence > 0) \/ shape.best.confidence < MIN_CONFIDENCE
         THEN NoActivity
    ELSE LET adjusted_confidence ==
                 IF should_fallback(history, errors, t)
                 THEN shape.best.confidence \div 2
                 ELSE shape.best.confidence
         IN  [detected |-> TRUE,
              pid |-> pid,
              activity_type |-> shape.best.activity_type,
              confidence |-> adjusted_confidence,
              policy_action |-> get_policy_action(adjusted_confidence),
              adaptive_threshold_used |-> get_adaptive_threshold(history, t),
              duration_estimate |-> shape.best.duration_estimate,
              allowed_domains |-> shape.best.allowed_domains]

detect_activity(pid, shape, pm, history, errors, t) ==
    IF pm = "none" THEN NoActivity
    ELSE IF ~shape.best.matched THEN NoActivity
    ELSE IF ~(shape.best.confidence > 0) \/ shape.best.confidence < MIN_CONFIDENCE
         THEN NoActivity
    ELSE LET adjusted_confidence ==
                 IF should_fallback(history, errors, t)
                 THEN (shape.best.confidence * FALLBACK_PERCENT) \div 100
                 ELSE shape.best.confidence
         IN  [detected |-> TRUE,
              pid |-> pid,
              activity_type |-> shape.best.activity_type,
              confidence |-> adjusted_confidence,
              policy_action |-> get_policy_action(adjusted_confidence),
              adaptive_threshold_used |-> get_adaptive_threshold(history, t),
              duration_estimate |-> shape.best.duration_estimate,
              allowed_domains |-> shape.best.allowed_domains]

StripDetected(a) ==
    [pid |-> a.pid, activity_type |-> a.activity_type, confidence |-> a.confidence,
     policy_action |-> a.policy_action, allowed_domains |-> a.allowed_domains]

\* variant: an attempt that yields no activity is recorded as a failure
on_process_detected_no_activity_fails(D, pid, shape, pm, t) ==
    LET activity == IF shape.raises THEN NoActivity
                    ELSE detect_activity(pid, shape, pm, D.detection_history,
                                         D.error_history, t)
        r == record_detection(D.detection_history, D.error_history, t,
                              activity.detected,
                              IF activity.detected THEN activity.confidence ELSE 0,
                              IF shape.raises THEN "Exception" ELSE "")
    IN  [active_activities |->
             IF activity.detected
             THEN TablePut(D.active_activities, StripDetected(activity))
             ELSE D.active_activities,
         detection_history |-> r.detection_history,
         error_history |-> r.error_history]

\* The detector's mutable state as one record D, so that the callbacks of one
\* poll cycle can be applied one after the other.
on_process_detected(D, pid, shape, pm, t) ==
    IF shape.raises
    THEN LET r == record_detection(D.detection_history, D.error_history, t,
                                   FALSE, 0, "Exception")
         IN  [active_activities |-> D.active_activities,
              detection_history |-> r.detection_history,
              error_history |-> r.error_history]
    ELSE LET activity == detect_activity(pid, shape, pm, D.detection_history,
                                         D.error_history, t)
             r == record_detection(D.detection_history, D.error_history, t, TRUE,
                                   IF activity.detected THEN activity.confidence ELSE 0,
                                   "")
         IN  [active_activities |->
                  IF activity.detected
                  THEN TablePut(D.active_activities, StripDetected(activity))
                  ELSE D.active_activities,
              detection_history |-> r.detection_history,
              error_history |-> r.error_history]

\* variant: the end of one process clears the table
on_process_ended_clears_table(D, pid) ==
    [D EXCEPT !.active_activities = <<>>]

on_process_ended(D, pid) ==
    [D EXCEPT !.active_activities = TableDel(D.active_activities, pid)]

\* variant: the newest activity is asked first
RECURSIVE should_allow_newest_first(_, _, _)
should_allow_newest_first(table, domain, port) ==
    IF table = <<>> THEN [allow |-> FALSE, reason |-> <<"no_active_activity">>]
    ELSE LET activity == table[Len(table)]
         IN  IF domain \in activity.allowed_domains
             THEN [allow |-> TRUE,
                   reason |-> <<activity.activity_type, "confidence",
                                (activity.confidence + 5) \div 10>>]
             ELSE IF activity.policy_action = "allow_unrestricted"
             THEN [allow |-> TRUE, reason |-> <<activity.activity_type, "unrestricted">>]
             ELSE IF activity.policy_action = "allow_with_monitoring"
             THEN [allow |-> TRUE, reason |-> <<activity.activity_type, "monitored">>]
             ELSE should_allow_newest_first(SubSeq(table, 1, Len(table) - 1), domain, port)

\* f"{confidence:.2f}": the confidence in hundredths, rounded to the nearest
Format2(confidence) == (confidence + 5) \div 10

\* variant: an activity under emergency review grants like a monitored one
RECURSIVE should_allow_under_review(_, _, _)
should_allow_under_review(table, domain, port) ==
    IF table = <<>> THEN [allow |-> FALSE, reason |-> <<"no_active_activity">>]
    ELSE LET activity == Head(table)
         IN  IF domain \in activity.allowed_domains
             THEN [allow |-> TRUE,
                   reason |-> <<activity.activity_type, "confidence",
                                Format2(activity.confidence)>>]
             ELSE IF activity.policy_action = "allow_unrestricted"
             THEN [allow |-> TRUE, reason |-> <<activity.activity_type, "unrestricted">>]
             ELSE IF activity.policy_action \in {"allow_with_monitoring", "emergency_review"}
             THEN [allow |-> TRUE, reason |-> <<activity.activity_type, "monitored">>]
             ELSE should_allow_under_review(Tail(table), domain, port)

\* A reason string is kept as the tuple of its parts:
\* <<kind, "confidence", X>> is "kind (confidence X)", <<kind, "monitored">> is
\* "kind (monitored)"
RECURSIVE should_allow_connection(_, _, _)
should_allow_connection(table, domain, port) ==
    IF table = <<>> THEN [allow |-> FALSE, reason |-> <<"no_active_activity">>]
    ELSE LET activity == Head(table)
         IN  IF domain \in activity.allowed_domains
             THEN [allow |-> TRUE,
                   reason |-> <<activity.activity_type, "confidence",
                                Format2(activity.confidence)>>]
             ELSE IF activity.policy_action = "allow_unrestricted"
             THEN [allow |-> TRUE, reason |-> <<activity.activity_type, "unrestricted">>]
             ELSE IF activity.policy_action = "allow_with_monitoring"
             THEN [allow |-> TRUE, reason |-> <<activity.activity_type, "monitored">>]
             ELSE should_allow_connection(Tail(table), domain, port)

(* ------------------------------ ProcessTree --------------------------- *)
\* ProcessTree.get_lineage as its while loop. tree maps the pids of
\* ProcessTree.processes to their ppid; L is the frame of one call: the pid
\* asked for, current_pid, the lineage so far (as pids) and the number of
\* rounds of the loop.
lineage_loop_guard(tree, L) ==
    L.current_pid # container_init_pid /\ L.current_pid \in DOMAIN tree

\* variant: the loop has no length check
lineage_iteration_uncapped(tree, L) ==
    [L EXCEPT !.lineage = Append(@, L.current_pid),
              !.current_pid = tree[L.current_pid],
              !.rounds = @ + 1]

\* one round of the loop: append, follow ppid, break when more than 50 long
lineage_iteration(tree, L) ==
    [L EXCEPT !.lineage = Append(@, L.current_pid),
              !.current_pid = tree[L.current_pid],
              !.rounds = @ + 1,
              !.pc = IF Len(L.lineage) + 1 > LINEAGE_CAP THEN "returned" ELSE "loop"]

(* ---------------------- ContainerProcessMonitor ----------------------- *)
RECURSIVE detect_new(_, _, _, _, _)
detect_new(D, new_pids, shapes, pm, t) ==
    IF new_pids = <<>> THEN D
    ELSE LET pid == Head(new_pids)
         IN  detect_new(IF shapes[pid].interesting
                        THEN on_process_detected(D, pid, shapes[pid], pm, t)
                        ELSE D,
                        Tail(new_pids), shapes, pm, t)

RECURSIVE detect_ended(_, _)
detect_ended(D, ended_pids) ==
    IF ended_pids = <<>> THEN D
    ELSE detect_ended(on_process_ended(D, Head(ended_pids)), Tail(ended_pids))

\* variant: every pid of the scan is handled as a new pid
detect_process_changes_every_scan(D, previous_pids, current_pids, shapes, pm, t) ==
    LET ended_pids == previous_pids \ current_pids
    IN  detect_ended(detect_new(D, SetToSeq(current_pids), shapes, pm, t),
                     SetToSeq(ended_pids))

\* _detect_process_changes: new pids first, then ended pids
detect_process_changes(D, previous_pids, current_pids, shapes, pm, t) ==
    LET new_pids == current_pids \ previous_pids
        ended_pids == previous_pids \ current_pids
    IN  detect_ended(detect_new(D, SetToSeq(new_pids), shapes, pm, t),
                     SetToSeq(ended_pids))

\* The same scan with an observer callback registered for every event ahead of
\* the detector's callbacks (register_callback appends to the list of the event).
\* The observer raises for the <<event, pid>> pairs in raising; each callback
\* call has its own try/except, which prints the error. S is the scan so far:
\* the detector state D, the keys of the process tree, the events delivered and
\* the number of errors printed.
deliver(S, event, pid, raising) ==
    [S EXCEPT !.delivered = Append(@, <<event, pid>>),
              !.printed = @ + (IF <<event, pid>> \in raising THEN 1 ELSE 0)]

\* variant: an exception of a callback leaves the loop over the new pids
RECURSIVE scan_new_unguarded(_, _, _, _, _, _)
scan_new_unguarded(S, new_pids, shapes, pm, t, raising) ==
    IF new_pids = <<>> THEN S
    ELSE LET pid == Head(new_pids)
             added == [S EXCEPT !.tree = @ \cup {pid}]
             started == deliver(added, "process_started", pid, raising)
             detected ==
                 IF shapes[pid].interesting
                 THEN [deliver(started, "command_detected", pid, raising)
                          EXCEPT !.D = on_process_detected(@, pid, shapes[pid], pm, t)]
                 ELSE started
         IN  IF <<"process_started", pid>> \in raising THEN started
             ELSE IF <<"command_detected", pid>> \in raising /\ shapes[pid].interesting
             THEN deliver(started, "command_detected", pid, raising)
             ELSE scan_new_unguarded(detected, Tail(new_pids), shapes, pm, t, raising)

RECURSIVE scan_new(_, _, _, _, _, _)
scan_new(S, new_pids, shapes, pm, t, raising) ==
    IF new_pids = <<>> THEN S
    ELSE LET pid == Head(new_pids)
             added == [S EXCEPT !.tree = @ \cup {pid}]
             started == deliver(added, "process_started", pid, raising)
             detected ==
                 IF shapes[pid].interesting
                 THEN [deliver(started, "command_detected", pid, raising)
                          EXCEPT !.D = on_process_detected(@, pid, shapes[pid], pm, t)]
                 ELSE started
         IN  scan_new(detected, Tail(new_pids), shapes, pm, t, raising)

RECURSIVE scan_ended(_, _, _)
scan_ended(S, ended_pids, raising) ==
    IF ended_pids = <<>> THEN S
    ELSE LET pid == Head(ended_pids)
             removed == [S EXCEPT !.tree = @ \ {pid}]
             ended == [deliver(removed, "process_ended", pid, raising)
                          EXCEPT !.D = on_process_ended(@, pid)]
         IN  scan_ended(IF pid \in S.tree THEN ended ELSE S, Tail(ended_pids), raising)

scan_with_observer(D, previous_pids, current_pids, shapes, pm, t, raising) ==
    LET S == [D |-> D, tree |-> previous_pids, delivered |-> <<>>, printed |-> 0]
    IN  scan_ended(scan_new(S, SetToSeq(current_pids \ previous_pids), shapes, pm, t,
                            raising),
                   SetToSeq(previous_pids \ current_pids), raising)

get_health_status(history, errors, t) ==
    [health_score |-> get_health_score(history, t),
     should_fallback |-> should_fallback(history, errors, t)]

(* ------------------------ PrivacyStateManager ------------------------- *)
get_activity_status(detector, table, history, errors, t) ==
    IF ~detector
    THEN [has_active_activities |-> FALSE,
          has_high_confidence_activity |-> FALSE,
          system_healthy |-> TRUE,
          active_activities |-> <<>>]
    ELSE LET high_confidence_activities ==
                 SelectSeq(table, LAMBDA a : a.confidence >= activity_confidence_threshold)
             health_status == get_health_status(history, errors, t)
         IN  [has_active_activities |-> Len(table) > 0,
              has_high_confidence_activity |-> Len(high_confidence_activities) > 0,
              system_healthy |-> /\ health_status.health_score > 5 * ScoreDen
                                 /\ ~health_status.should_fallback,
              active_activities |-> table]

\* variant: the download status is not asked again
strict_ignoring_downloads(t, started, ready, downloads_protected) ==
    IF t - started < startup_safety_buffer THEN FALSE ELSE ready

\* variant: neither the safety buffer nor the readiness probe is asked
strict_when_unprotected(t, started, ready, downloads_protected) == ~downloads_protected

\* ready and downloads_protected are the answers of check_comfyui_ready and of
\* the second get_download_status call
should_transition_to_strict(t, started, ready, downloads_protected) ==
    IF t - started < startup_safety_buffer THEN FALSE
    ELSE IF ~ready THEN FALSE
    ELSE IF downloads_protected THEN FALSE
    ELSE TRUE

\* variant: the domains of every activity, whatever its confidence
RECURSIVE DomainsOfAll(_, _)
DomainsOfAll(activities, threshold) ==
    IF activities = <<>> THEN {}
    ELSE Head(activities).allowed_domains \cup DomainsOfAll(Tail(activities), threshold)

\* the loop of get_current_allowlist over activity_status["active_activities"]
RECURSIVE DomainsOf(_, _)
DomainsOf(activities, threshold) ==
    IF activities = <<>> THEN {}
    ELSE (IF Head(activities).confidence >= threshold
          THEN Head(activities).allowed_domains ELSE {})
         \cup DomainsOf(Tail(activities), threshold)

get_current_allowlist(state, activity_status) ==
    IF state = "startup" THEN allowed_domains \cup startup_domains
    ELSE IF state = "downloads_active" THEN allowed_domains
    ELSE IF state = "activity_detected"
    THEN allowed_domains
         \cup DomainsOf(activity_status.active_activities, activity_confidence_threshold)
    ELSE IF state = "strict"
    THEN allowed_domains
         \cup DomainsOf(activity_status.active_activities, STRICT_DOMAIN_CONFIDENCE)
    ELSE IF state = "emergency_block" THEN {}
    ELSE allowed_domains

\* variant: a failing iptables command is logged and nothing else happens
apply_iptables_rules_ignoring_failure(mon_only, ipt_ok) == mon_only

\* apply_iptables_rules: the new value of config["monitoring_only"]; ipt_ok is
\* whether the iptables commands succeed
apply_iptables_rules(mon_only, ipt_ok) ==
    IF ~privacy_enabled THEN mon_only
    ELSE IF mon_only THEN mon_only
    ELSE IF ipt_ok THEN mon_only
    ELSE TRUE

\* How the iptables commands of one apply_iptables_rules call can end: all
\* succeed; a command run with check=True exits non-zero (CalledProcessError);
\* subprocess.run itself raises, as when there is no iptables binary; a command
\* run with check=False exits non-zero, which the code does not look at.
IptablesOutcomes == {"ok", "checked_command_fails", "run_raises", "unchecked_command_fails"}

\* the outcomes that end in one of the except branches
IptablesRaises(outcome) == outcome \in {"checked_command_fails", "run_raises"}

\* apply_iptables_rules: the iptables commands that were run, in order
iptables_commands(state, allowlist, mon_only, outcome) ==
    IF ~privacy_enabled \/ mon_only THEN <<>>
    ELSE IF outcome = "run_raises" THEN <<>>
    ELSE IF outcome = "checked_command_fails" THEN <<"flush", "accept_loopback">>
    ELSE <<"flush", "accept_loopback", "accept_established">>
         \o [i \in 1..(3 * Cardinality(allowlist)) |-> "accept_port"]
         \o (IF state \in {"strict", "emergency_block"} THEN <<"log">> ELSE <<>>)
         \o (IF state = "emergency_block" THEN <<"reject">> ELSE <<>>)

\* The branches of update_state, one per current state.  strict_ok is the
\* answer of should_transition_to_strict, which only the startup branch asks for.
from_startup(download_status, activity_status, strict_ok) ==
    IF download_status.active THEN "downloads_active"
    ELSE IF activity_status.has_high_confidence_activity THEN "activity_detected"
    ELSE IF strict_ok THEN "strict"
    ELSE "startup"

\* variant: leaving downloads_active always tightens to strict
from_downloads_active_to_strict(download_status, activity_status) ==
    IF ~download_status.downloads_protected THEN "strict" ELSE "downloads_active"

from_downloads_active(download_status, activity_status) ==
    IF ~download_status.downloads_protected
    THEN IF activity_status.has_high_confidence_activity THEN "activity_detected"
         ELSE "strict"
    ELSE "downloads_active"

\* variant: an empty table tightens to strict whatever the health monitor says
from_activity_detected_unguarded(download_status, activity_status) ==
    IF download_status.active THEN "downloads_active"
    ELSE IF ~activity_status.has_active_activities THEN "strict"
    ELSE "activity_detected"

from_activity_detected(download_status, activity_status) ==
    IF download_status.active THEN "downloads_active"
    ELSE IF ~activity_status.has_active_activities
    THEN IF activity_status.system_healthy THEN "strict" ELSE "activity_detected"
    ELSE "activity_detected"

\* variant: strict never relaxes for an activity
from_strict_blind(download_status, activity_status) ==
    IF download_status.active THEN "downloads_active" ELSE "strict"

\* variant: an activity seen in strict raises the emergency block
from_strict_panics(download_status, activity_status) ==
    IF download_status.active THEN "downloads_active"
    ELSE IF activity_status.has_high_confidence_activity THEN "emergency_block"
    ELSE "strict"

from_strict(download_status, activity_status) ==
    IF download_status.active THEN "downloads_active"
    ELSE IF activity_status.has_high_confidence_activity THEN "activity_detected"
    ELSE "strict"

\* variant: emergency_block is left like strict
transition_leaves_emergency(state, download_status, activity_status, strict_ok) ==
    IF state = "startup" THEN from_startup(download_status, activity_status, strict_ok)
    ELSE IF state = "downloads_active"
    THEN from_downloads_active(download_status, activity_status)
    ELSE IF state = "activity_detected"
    THEN from_activity_detected(download_status, activity_status)
    ELSE from_strict(download_status, activity_status)

\* the state transition of update_state
transition(state, download_status, activity_status, strict_ok) ==
    IF state = "startup" THEN from_startup(download_status, activity_status, strict_ok)
    ELSE IF state = "downloads_active"
    THEN from_downloads_active(download_status, activity_status)
    ELSE IF state = "activity_detected"
    THEN from_activity_detected(download_status, activity_status)
    ELSE IF state = "strict" THEN from_strict(download_status, activity_status)
    ELSE state

\* variant: a change to strict is not re-applied
apply_calls_not_for_strict(old_state, new_state) ==
    IF old_state # new_state /\ new_state # "strict" THEN 1 ELSE 0

\* update_state calls apply_iptables_rules only when the state changed
apply_calls_of_update(old_state, new_state) == IF old_state # new_state THEN 1 ELSE 0

save_state(state, t, started) ==
    [exists |-> TRUE, state |-> state, timestamp |-> t, startup_time |-> started]

\* variant: a state file of exactly the maximum age is still honoured
load_state_inclusive(file, state, started, t) ==
    IF file.exists /\ t - file.timestamp <= STATE_MAX_AGE
    THEN [current_state |-> file.state, startup_time |-> file.startup_time]
    ELSE [current_state |-> state, startup_time |-> started]

\* load_state: the restored current_state and startup_time
load_state(file, state, started, t) ==
    IF file.exists /\ t - file.timestamp < STATE_MAX_AGE
    THEN [current_state |-> file.state, startup_time |-> file.startup_time]
    ELSE [current_state |-> state, startup_time |-> started]

CurrentStatus ==
    get_activity_status(activity_detector, active_activities, detection_history,
                        error_history, now)

Idle == [op |-> "none"]

(* ------------------------------ actions ------------------------------- *)
Constructed ==
    /\ current_state = "startup"
    /\ startup_time = now
    /\ monitoring_only \in BOOLEAN          \* detect_monitoring_only_mode()
    /\ state_file = NoFile
    /\ loop_pc = "constructed"
    /\ activity_detector \in BOOLEAN        \* None if the detector is unavailable
    /\ process_monitor = "none"
    /\ processes = {}
    /\ active_activities = <<>>
    /\ detection_history = <<>>
    /\ error_history = <<>>
    /\ last = Idle

Init ==
    /\ now = 0
    /\ Constructed
    /\ policy_query = NoQuery
    /\ allowlist_query = NoQuery
    /\ admission = NoQuery
    /\ evaluation = NoQuery

\* run_monitoring_loop up to its while loop: start the detector, load the
\* persisted state, apply the initial rules
RunMonitoringLoop ==
    /\ loop_pc = "constructed"
    /\ LET loaded == load_state(state_file, current_state, startup_time, now)
       IN  \E ipt_ok \in (IF monitoring_only \/ ~privacy_enabled THEN {TRUE} ELSE BOOLEAN) :
             /\ loop_pc' = "looping"
             /\ process_monitor' = IF activity_detector /\ process_monitor = "none"
                                   THEN "initial" ELSE process_monitor
             /\ current_state' = loaded.current_state
             /\ startup_time' = loaded.startup_time
             /\ monitoring_only' = apply_iptables_rules(monitoring_only, ipt_ok)
             /\ last' = [op |-> "run_monitoring_loop", old_state |-> current_state,
                         apply_calls |-> 1]
    /\ UNCHANGED <<now, state_file, activity_detector, processes, active_activities,
                   detection_history, error_history, qry_vars>>

\* one call of update_state (a tick of the loop, or a direct call)
UpdateState ==
    \E activity_status \in {CurrentStatus} :
    \E downloads_protected \in BOOLEAN, active \in BOOLEAN :
      LET download_status == [downloads_protected |-> downloads_protected, active |-> active]
          probes == /\ current_state = "startup"
                    /\ ~active
                    /\ ~activity_status.has_high_confidence_activity
          asks_ready == probes /\ ~(now - startup_time < startup_safety_buffer)
      IN  \E ready \in (IF asks_ready THEN BOOLEAN ELSE {FALSE}) :
          \E protected_again \in (IF asks_ready /\ ready THEN BOOLEAN ELSE {FALSE}) :
            LET strict_ok == should_transition_to_strict(now, startup_time, ready,
                                                         protected_again)
                new_state == transition(current_state, download_status, activity_status,
                                        strict_ok)
                calls == apply_calls_of_update(current_state, new_state)
            IN  \E ipt_ok \in (IF calls = 0 \/ monitoring_only \/ ~privacy_enabled
                               THEN {TRUE} ELSE BOOLEAN) :
                  /\ current_state' = new_state
                  /\ monitoring_only' = IF calls > 0
                                        THEN apply_iptables_rules(monitoring_only, ipt_ok)
                                        ELSE monitoring_only
                  /\ state_file' = save_state(new_state, now, startup_time)
                  /\ last' = [op |-> "update_state", old_state |-> current_state,
                              downloads_protected |-> downloads_protected,
                              active |-> active, ready |-> ready,
                              protected_again |-> protected_again,
                              apply_calls |-> calls]
    /\ UNCHANGED <<now, startup_time, loop_pc, activity_detector, det_vars, qry_vars>>

SetEmergencyBlock ==
    /\ \E ipt_ok \in (IF monitoring_only \/ ~privacy_enabled THEN {TRUE} ELSE BOOLEAN) :
         /\ current_state' = "emergency_block"
         /\ monitoring_only' = apply_iptables_rules(monitoring_only, ipt_ok)
         /\ state_file' = save_state("emergency_block", now, startup_time)
         /\ last' = [op |-> "set_emergency_block", old_state |-> current_state,
                     apply_calls |-> 1]
    /\ UNCHANGED <<now, startup_time, loop_pc, activity_detector, det_vars, qry_vars>>

\* The pids the next k processes get: the environment hands out the smallest
\* pids that are not in use (pids are only identifiers)
RECURSIVE FreshPids(_, _)
FreshPids(used, k) ==
    IF k = 0 \/ Pids \ used = {} THEN {}
    ELSE {Min(Pids \ used)} \cup FreshPids(used \cup {Min(Pids \ used)}, k - 1)

\* _monitor_loop: the initial scan fills the process tree without callbacks
MonitorInitialScan ==
    /\ process_monitor = "initial"
    /\ \E k \in 0..MaxPid :
         /\ processes' = FreshPids({}, k)
         /\ process_monitor' = "polling"
    /\ last' = Idle
    /\ UNCHANGED <<now, mgr_vars, active_activities, detection_history, error_history,
                   qry_vars>>

\* _monitor_loop: one scan followed by _detect_process_changes
PollCycle ==
    /\ process_monitor = "polling"
    /\ \E ended \in SUBSET processes :
       \E k \in 0..(MaxPid - Cardinality(processes)) :
       \E shapes \in [FreshPids(processes, k) -> Shapes] :
         LET current_pids == (processes \ ended) \cup FreshPids(processes, k)
             D == [active_activities |-> active_activities,
                   detection_history |-> detection_history,
                   error_history |-> error_history]
             R == detect_process_changes(D, processes, current_pids, shapes,
                                         process_monitor, now)
         IN  /\ Len(detection_history)
                + Cardinality({p \in DOMAIN shapes : shapes[p].interesting}) <= MaxHist
             /\ current_pids # processes
             /\ processes' = current_pids
             /\ active_activities' = R.active_activities
             /\ detection_history' = R.detection_history
             /\ error_history' = R.error_history
    /\ last' = Idle
    /\ UNCHANGED <<now, mgr_vars, process_monitor, qry_vars>>

TimePasses ==
    /\ now + Quantum <= MaxTime * Quantum
    /\ now' = now + Quantum
    /\ last' = Idle
    /\ UNCHANGED <<mgr_vars, det_vars, qry_vars>>

Next ==
    \/ RunMonitoringLoop
    \/ UpdateState
    \/ SetEmergencyBlock
    \/ MonitorInitialScan
    \/ PollCycle
    \/ TimePasses

Spec == Init /\ [][Next]_vars

(* ------------- the allow-set and the admission check, per table -------- *)
\* Observations that fill the table with activities of every policy action.
TableConfidences == {200, 400, 600, 750, 950}

TableKinds ==
    {[activity_type |-> "pip_install", allowed_domains |-> {"pypi.org"}],
     [activity_type |-> "git_clone", allowed_domains |-> {"github.com"}]}

TableShapes ==
    {[interesting |-> TRUE, raises |-> FALSE,
      best |-> [matched |-> TRUE, activity_type |-> k.activity_type, confidence |-> c,
                allowed_domains |-> k.allowed_domains, duration_estimate |-> 300]] :
        k \in TableKinds, c \in TableConfidences}

Domains == {"pypi.org", "github.com", "example.com"}
Ports == {80, 443}

EmptyDetector ==
    [active_activities |-> <<>>, detection_history |-> <<>>, error_history |-> <<>>]

\* Any state of the machine, with a table the detector built from up to MaxTable
\* detected processes (pids 1..n in the order they were detected).
InitTable ==
    /\ now = 0
    /\ current_state \in PrivacyState
    /\ startup_time = 0
    /\ monitoring_only = TRUE
    /\ state_file = NoFile
    /\ loop_pc = "looping"
    /\ activity_detector = TRUE
    /\ process_monitor = "polling"
    /\ \E n \in 0..MaxTable : \E shapes \in [1..n -> TableShapes] :
         LET D == detect_new(EmptyDetector, SetToSeq(1..n), shapes, "polling", 0)
         IN  /\ processes = 1..n
             /\ active_activities = D.active_activities
             /\ detection_history = D.detection_history
             /\ error_history = D.error_history
    /\ last = Idle
    /\ policy_query = NoQuery
    /\ allowlist_query = NoQuery
    /\ admission = NoQuery
    /\ evaluation = NoQuery

QueryAllowlist ==
    /\ allowlist_query' =
           [asked |-> TRUE, allowed |-> get_current_allowlist(current_state, CurrentStatus)]
    /\ UNCHANGED <<now, mgr_vars, det_vars, last, policy_query, admission, evaluation>>

QueryAdmission ==
    /\ \E domain \in Domains, port \in Ports :
         admission' = [asked |-> TRUE, domain |-> domain, port |-> port,
                       result |-> should_allow_connection(active_activities, domain, port)]
    /\ UNCHANGED <<now, mgr_vars, det_vars, last, policy_query, allowlist_query, evaluation>>

NextTable == QueryAllowlist \/ QueryAdmission

SpecTable == InitTable /\ [][NextTable]_vars

(* ---------------------- the policy action, per confidence -------------- *)
\* ActivityPattern.match clamps a confidence to [0.0, 1.0]
Confidences == 0..ONE

InitPolicy ==
    /\ now = 0
    /\ current_state = "startup"
    /\ startup_time = 0
    /\ monitoring_only = TRUE
    /\ state_file = NoFile
    /\ loop_pc = "constructed"
    /\ activity_detector = TRUE
    /\ process_monitor = "none"
    /\ processes = {}
    /\ active_activities = <<>>
    /\ detection_history = <<>>
    /\ error_history = <<>>
    /\ last = Idle
    /\ policy_query \in {[asked |-> FALSE, confidence |-> c] : c \in Confidences}
    /\ allowlist_query = NoQuery
    /\ admission = NoQuery
    /\ evaluation = NoQuery

EvaluatePolicy ==
    /\ ~policy_query.asked
    /\ policy_query' = [asked |-> TRUE, confidence |-> policy_query.confidence,
                        action |-> get_policy_action(policy_query.confidence)]
    /\ UNCHANGED <<now, mgr_vars, det_vars, last, allowlist_query, admission, evaluation>>

NextPolicy == EvaluatePolicy

SpecPolicy == InitPolicy /\ [][NextPolicy]_vars

(* --------------------- match, per pattern and process ------------------ *)
\* Rule sets as in _create_default_patterns, and one with ancestor rules as a
\* policy file can give; modifier weights and base confidences of both signs
\* and beyond 1.
PatternRules ==
    {[activity_type |-> "pip_install",
      command_patterns |-> <<"pip", "pip3", "python -m pip">>,
      arg_patterns |-> <<"install">>, cwd_patterns |-> <<>>, parent_patterns |-> <<>>,
      modifier_keys |-> <<"install_specific_package", "from_comfyui_directory">>],
     [activity_type |-> "extension_update",
      command_patterns |-> <<"python", "python3">>,
      arg_patterns |-> <<>>, cwd_patterns |-> <<"/ComfyUI/custom_nodes">>,
      parent_patterns |-> <<>>, modifier_keys |-> <<>>],
     [activity_type |-> "git_clone",
      command_patterns |-> <<"git">>,
      arg_patterns |-> <<"clone", "install">>, cwd_patterns |-> <<"/ComfyUI">>,
      parent_patterns |-> <<"bash", "python", "python3">>,
      modifier_keys |-> <<"uses_sudo", "install_specific_package">>]}

ModifierWeights == {-2000, 100, 5000}
BaseConfidences == {-500, 900, 2000}

MatchPatterns ==
    {[activity_type |-> r.activity_type,
      command_patterns |-> r.command_patterns,
      arg_patterns |-> r.arg_patterns,
      cwd_patterns |-> r.cwd_patterns,
      parent_patterns |-> r.parent_patterns,
      confidence_modifiers |->
          [i \in 1..Len(r.modifier_keys) |-> [key |-> r.modifier_keys[i], value |-> w]],
      base_confidence |-> b] :
        r \in PatternRules, w \in ModifierWeights, b \in BaseConfidences}

Cmdlines ==
    {<<"pip", "install", "torch">>,
     <<"python3", "-m", "pip", "install", "torch">>,
     <<"python3", "main.py">>,
     <<"git", "clone", "repo">>,
     <<"git", "clone", "install">>,
     <<"bash", "install", "torch">>,
     <<"sudo", "pip", "install", "torch">>}

Cwds == {"/tmp", "/ComfyUI/custom_nodes"}

AncestorCommands == {"bash", "python3"}

Processes == {[cmdline |-> c, cwd |-> d] : c \in Cmdlines, d \in Cwds}

\* get_lineage: the process itself, then up to MaxLineage ancestors
Lineages(proc_info) ==
    {<<command_of(proc_info)>> \o anc :
        anc \in UNION {[1..n -> AncestorCommands] : n \in 0..MaxLineage}}

InitPure ==
    /\ now = 0
    /\ current_state = "startup"
    /\ startup_time = 0
    /\ monitoring_only = TRUE
    /\ state_file = NoFile
    /\ loop_pc = "constructed"
    /\ activity_detector = TRUE
    /\ process_monitor = "none"
    /\ processes = {}
    /\ active_activities = <<>>
    /\ detection_history = <<>>
    /\ error_history = <<>>
    /\ last = Idle
    /\ policy_query = NoQuery
    /\ allowlist_query = NoQuery
    /\ admission = NoQuery

InitMatch ==
    /\ InitPure
    /\ \E pattern \in MatchPatterns, proc_info \in Processes :
       \E lineage \in Lineages(proc_info) :
         evaluation = [asked |-> FALSE, pattern |-> pattern, proc_info |-> proc_info,
                       lineage |-> lineage]

EvaluateMatch ==
    /\ ~evaluation.asked
    /\ evaluation' = [asked |-> TRUE, pattern |-> evaluation.pattern,
                      proc_info |-> evaluation.proc_info, lineage |-> evaluation.lineage,
                      result |-> match(evaluation.pattern, evaluation.proc_info,
                                       evaluation.lineage)]
    /\ UNCHANGED <<now, mgr_vars, det_vars, last, policy_query, allowlist_query, admission>>

NextMatch == EvaluateMatch

SpecMatch == InitMatch /\ [][NextMatch]_vars

(* ------------------ detect_activity over loaded patterns --------------- *)
\* The patterns a detector can have loaded: the rule sets above with a base
\* confidence that keeps a match under the floor or lifts it over it, each in
\* two variants that differ in allowed domains and duration estimate only, so
\* that two loaded patterns can reach the same confidence.
LoadedBaseConfidences == {100, 900}

PatternGrants ==
    {[allowed_domains |-> {"pypi.org"}, duration_estimate |-> 180],
     [allowed_domains |-> {"github.com"}, duration_estimate |-> 600]}

LoadedPatterns ==
    {[activity_type |-> r.activity_type,
      command_patterns |-> r.command_patterns,
      arg_patterns |-> r.arg_patterns,
      cwd_patterns |-> r.cwd_patterns,
      parent_patterns |-> r.parent_patterns,
      confidence_modifiers |->
          [i \in 1..Len(r.modifier_keys) |-> [key |-> r.modifier_keys[i], value |-> 100]],
      base_confidence |-> b,
      allowed_domains |-> g.allowed_domains,
      duration_estimate |-> g.duration_estimate] :
        r \in PatternRules, b \in LoadedBaseConfidences, g \in PatternGrants}

ClassifiedProcesses ==
    {[cmdline |-> <<"pip", "install", "torch">>, cwd |-> "/tmp"],
     [cmdline |-> <<"git", "clone", "repo">>, cwd |-> "/tmp"],
     [cmdline |-> <<"python3", "main.py">>, cwd |-> "/ComfyUI/custom_nodes"]}

\* a detector is constructed without a process monitor (self.process_monitor =
\* None) and gets one in start_monitoring
InitClassify ==
    /\ now = 0
    /\ current_state = "startup"
    /\ startup_time = 0
    /\ monitoring_only = TRUE
    /\ state_file = NoFile
    /\ loop_pc = "constructed"
    /\ activity_detector = TRUE
    /\ process_monitor \in {"none", "polling"}
    /\ processes = {}
    /\ active_activities = <<>>
    /\ detection_history = <<>>
    /\ error_history = <<>>
    /\ last = Idle
    /\ policy_query = NoQuery
    /\ allowlist_query = NoQuery
    /\ admission = NoQuery
    /\ \E patterns \in UNION {[1..n -> LoadedPatterns] : n \in 0..MaxPatterns},
          proc_info \in ClassifiedProcesses, parents \in {<<>>, <<"bash">>} :
         evaluation = [asked |-> FALSE, patterns |-> patterns, proc_info |-> proc_info,
                       lineage |-> <<command_of(proc_info)>> \o parents]

EvaluateClassify ==
    /\ ~evaluation.asked
    /\ evaluation' =
           [asked |-> TRUE, patterns |-> evaluation.patterns,
            proc_info |-> evaluation.proc_info, lineage |-> evaluation.lineage,
            result |-> detect_activity(
                           1,
                           [best |-> best_match(evaluation.patterns,
                                                evaluation.proc_info, evaluation.lineage)],
                           process_monitor, detection_history, error_history, now)]
    /\ UNCHANGED <<now, mgr_vars, det_vars, last, policy_query, allowlist_query, admission>>

NextClassify == EvaluateClassify

SpecClassify == InitClassify /\ [][NextClassify]_vars

(* --------------------- the health monitor over time -------------------- *)
\* One process slot seen by the poller: a poll cycle finds either a new process
\* (classified, the attempt recorded) or the end of the present one. The clock
\* moves from one window length to the next, which puts earlier samples on the
\* boundary of a window, between two boundaries and past the longest window.
HealthShapes == {UnmatchedProc, RaisingProc, PipProc, FaintProc}

HealthClock ==
    {short_window, medium_window, long_window - 2 * short_window, long_window,
     long_window + short_window}

InitHealth ==
    /\ now = 0
    /\ current_state = "startup"
    /\ startup_time = 0
    /\ monitoring_only = TRUE
    /\ state_file = NoFile
    /\ loop_pc = "constructed"
    /\ activity_detector = TRUE
    /\ process_monitor = "polling"
    /\ processes = {}
    /\ active_activities = <<>>
    /\ detection_history = <<>>
    /\ error_history = <<>>
    /\ last = Idle
    /\ policy_query = NoQuery
    /\ allowlist_query = NoQuery
    /\ admission = NoQuery
    /\ evaluation = [op |-> "none"]

PollCycleOf(observable, max_samples) ==
    /\ \E current_pids \in {{}, {1}} \ {processes} :
       \E shapes \in [current_pids \ processes -> observable] :
         LET D == [active_activities |-> active_activities,
                   detection_history |-> detection_history,
                   error_history |-> error_history]
             R == detect_process_changes(D, processes, current_pids, shapes,
                                         process_monitor, now)
         IN  /\ Len(detection_history) + Cardinality(current_pids \ processes)
                    <= max_samples
             /\ processes' = current_pids
             /\ active_activities' = R.active_activities
             /\ detection_history' = R.detection_history
             /\ error_history' = R.error_history
             /\ evaluation' = [op |-> "poll_cycle", shapes |-> shapes]
    /\ UNCHANGED <<now, mgr_vars, process_monitor, last, policy_query, allowlist_query,
                   admission>>

HealthPollCycle == PollCycleOf(HealthShapes, MaxSamples)

ClockMoves(clock) ==
    /\ \E t \in clock : t > now
    /\ now' = Min({t \in clock : t > now})
    /\ evaluation' = [op |-> "time_passes"]
    /\ UNCHANGED <<mgr_vars, det_vars, last, policy_query, allowlist_query, admission>>

HealthTimePasses == ClockMoves(HealthClock)

EvaluateHealth ==
    /\ evaluation.op # "get_health_status"
    /\ evaluation' = [op |-> "get_health_status",
                      status |-> get_health_status(detection_history, error_history, now)]
    /\ UNCHANGED <<now, mgr_vars, det_vars, last, policy_query, allowlist_query, admission>>

NextHealth ==
    \/ HealthPollCycle
    \/ HealthTimePasses
    \/ EvaluateHealth

SpecHealth == InitHealth /\ [][NextHealth]_vars

\* The same poller when no classification raises: every observed process is
\* classified to an activity or to none.
CalmShapes == {UnmatchedProc, PipProc, FaintProc}

CalmPollCycle == PollCycleOf(CalmShapes, MaxSamples)

NextCalm ==
    \/ CalmPollCycle
    \/ HealthTimePasses
    \/ EvaluateHealth

SpecCalm == InitHealth /\ [][NextCalm]_vars

\* A burst of classifications within one short window: attempts that raise and
\* attempts that detect an activity, up to MaxBurst samples.
BurstShapes == {RaisingProc, PipProc}

BurstClock == {short_window \div 2, short_window}

BurstPollCycle == PollCycleOf(BurstShapes, MaxBurst)

BurstTimePasses == ClockMoves(BurstClock)

NextBurst ==
    \/ BurstPollCycle
    \/ BurstTimePasses
    \/ EvaluateHealth

SpecBurst == InitHealth /\ [][NextBurst]_vars

(* ------------------- the state file across restarts -------------------- *)
\* main() builds a new PrivacyStateManager in every invocation; the state file
\* has a fixed path and outlives the process. The monitor process ticks, ends
\* and is started again, and the emergency-block command runs as an invocation
\* of its own. The clock moves in half maximum ages.
PersistStep == STATE_MAX_AGE \div 2

PersistHorizon == 2 * STATE_MAX_AGE

PersistTick == loop_pc = "looping" /\ UpdateState

\* the monitor process has ended and main() constructs the next manager
PersistRestart ==
    /\ loop_pc = "looping"
    /\ current_state' = "startup"
    /\ startup_time' = now
    /\ monitoring_only' \in BOOLEAN
    /\ loop_pc' = "constructed"
    /\ process_monitor' = "none"
    /\ processes' = {}
    /\ active_activities' = <<>>
    /\ detection_history' = <<>>
    /\ error_history' = <<>>
    /\ last' = [op |-> "construct"]
    /\ UNCHANGED <<now, state_file, activity_detector, qry_vars>>

\* "emergency-block" of main(): a manager of its own, constructed now, sets the
\* state and saves it
EmergencyBlockCommand ==
    /\ state_file' = save_state("emergency_block", now, now)
    /\ last' = [op |-> "emergency_block_command"]
    /\ UNCHANGED <<now, current_state, startup_time, monitoring_only, loop_pc,
                   activity_detector, det_vars, qry_vars>>

PersistTimePasses ==
    /\ now + PersistStep <= PersistHorizon
    /\ now' = now + PersistStep
    /\ last' = Idle
    /\ UNCHANGED <<mgr_vars, det_vars, qry_vars>>

NextPersist ==
    \/ RunMonitoringLoop
    \/ PersistTick
    \/ PersistRestart
    \/ EmergencyBlockCommand
    \/ PersistTimePasses

SpecPersist == Init /\ [][NextPersist]_vars

(* ------------- the table between the poller and its readers ----------- *)
\* The poller thread runs the callbacks; should_allow_connection and the state
\* machine run on other threads, and no lock is taken anywhere. A step is what
\* one thread does without the other getting in between: a whole callback (its
\* one store to or delete from the dict is the only access to the table), one
\* turn of the for loop of should_allow_connection, one list(dict.values()).
RaceShapes == {s \in TableShapes : s.best.confidence < MEDIUM_CONFIDENCE}

NotIterating == [asked |-> FALSE, iterating |-> FALSE]

InitRace ==
    /\ now = 0
    /\ current_state = "startup"
    /\ startup_time = 0
    /\ monitoring_only = TRUE
    /\ state_file = NoFile
    /\ loop_pc = "looping"
    /\ activity_detector = TRUE
    /\ process_monitor = "polling"
    /\ processes = {}
    /\ active_activities = <<>>
    /\ detection_history = <<>>
    /\ error_history = <<>>
    /\ last = Idle
    /\ policy_query = NoQuery
    /\ allowlist_query = NoQuery
    /\ admission = NotIterating
    /\ evaluation = NoQuery

\* _on_process_detected on the poller thread, for a new process
RaceProcessDetected ==
    /\ Len(detection_history) < MaxHist
    /\ \E pid \in (1..MaxTable) \ processes, shape \in RaceShapes :
         LET D == [active_activities |-> active_activities,
                   detection_history |-> detection_history,
                   error_history |-> error_history]
             R == on_process_detected(D, pid, shape, process_monitor, now)
         IN  /\ processes' = processes \cup {pid}
             /\ active_activities' = R.active_activities
             /\ detection_history' = R.detection_history
             /\ error_history' = R.error_history
    /\ UNCHANGED <<now, mgr_vars, process_monitor, last, qry_vars>>

\* _on_process_ended on the poller thread. A dict iterator is an index into the
\* entries of the dict, and a deleted entry keeps its slot; in the table of the
\* model the later entries move up, and so does the index of a running iterator.
RaceProcessEnded ==
    /\ \E pid \in processes :
         LET D == [active_activities |-> active_activities,
                   detection_history |-> detection_history,
                   error_history |-> error_history]
             R == on_process_ended(D, pid)
             i == TableIndex(active_activities, pid)
         IN  /\ processes' = processes \ {pid}
             /\ active_activities' = R.active_activities
             /\ admission' = IF admission.iterating /\ i > 0 /\ i <= admission.position
                             THEN [admission EXCEPT !.position = @ - 1]
                             ELSE admission
    /\ UNCHANGED <<now, mgr_vars, process_monitor, detection_history, error_history, last,
                   policy_query, allowlist_query, evaluation>>

\* should_allow_connection up to its for loop: the iterator over
\* self.active_activities.values() is created and notes the size of the dict
AdmissionBegins ==
    /\ ~admission.iterating
    /\ \E domain \in Domains, port \in Ports :
         admission' = [asked |-> FALSE, iterating |-> TRUE, domain |-> domain,
                       port |-> port, size |-> Len(active_activities), position |-> 0]
    /\ UNCHANGED <<now, mgr_vars, det_vars, last, policy_query, allowlist_query, evaluation>>

\* one turn of the for loop: the iterator raises RuntimeError when the size of
\* the dict changed, ends the loop when it is exhausted, and otherwise hands out
\* the next activity, which the body examines
AdmissionTurn ==
    /\ admission.iterating
    /\ admission' =
         IF Len(active_activities) # admission.size
         THEN [asked |-> TRUE, iterating |-> FALSE, domain |-> admission.domain,
               port |-> admission.port, raised |-> TRUE]
         ELSE IF admission.position >= Len(active_activities)
         THEN [asked |-> TRUE, iterating |-> FALSE, domain |-> admission.domain,
               port |-> admission.port, raised |-> FALSE,
               result |-> should_allow_connection(<<>>, admission.domain, admission.port)]
         ELSE LET one == should_allow_connection(
                             <<active_activities[admission.position + 1]>>,
                             admission.domain, admission.port)
              IN  IF one.allow
                  THEN [asked |-> TRUE, iterating |-> FALSE, domain |-> admission.domain,
                        port |-> admission.port, raised |-> FALSE, result |-> one]
                  ELSE [admission EXCEPT !.position = @ + 1]
    /\ UNCHANGED <<now, mgr_vars, det_vars, last, policy_query, allowlist_query, evaluation>>

\* get_active_activities on the state machine's thread: list(dict.values())
ReadActiveActivities ==
    /\ evaluation' = [asked |-> TRUE, active_activities |-> active_activities]
    /\ UNCHANGED <<now, mgr_vars, det_vars, last, policy_query, allowlist_query, admission>>

NextRace ==
    \/ RaceProcessDetected
    \/ RaceProcessEnded
    \/ AdmissionBegins
    \/ AdmissionTurn
    \/ ReadActiveActivities

SpecRace == InitRace /\ [][NextRace]_vars

(* ------------------ the manager and the packet filter ----------------- *)
\* The operations of one manager that call apply_iptables_rules, with the way
\* the iptables commands end as an input. evaluation keeps the last such
\* operation: whether it called apply_iptables_rules, how the commands ended,
\* which commands were run, and whether an earlier call had failed. The clock
\* stands at the manager's start, where should_transition_to_strict answers
\* False without asking the readiness probe.
NoApply == [op |-> "none", applied |-> FALSE, failed_before |-> FALSE]

ApplyRecord(op, state, mon_only, outcome) ==
    [op |-> op, applied |-> TRUE, state |-> state, monitoring_only |-> mon_only,
     outcome |-> outcome,
     commands |-> iptables_commands(state, get_current_allowlist(state, CurrentStatus),
                                    mon_only, outcome),
     failed_before |-> evaluation.failed_before
                       \/ (privacy_enabled /\ ~mon_only /\ IptablesRaises(outcome))]

InitApply ==
    /\ now = 0
    /\ Constructed
    /\ policy_query = NoQuery
    /\ allowlist_query = NoQuery
    /\ admission = NoQuery
    /\ evaluation = NoApply

ApplyRunMonitoringLoop ==
    /\ loop_pc = "constructed"
    /\ LET loaded == load_state(state_file, current_state, startup_time, now)
       IN  \E outcome \in IptablesOutcomes :
             /\ loop_pc' = "looping"
             /\ process_monitor' = IF activity_detector /\ process_monitor = "none"
                                   THEN "initial" ELSE process_monitor
             /\ current_state' = loaded.current_state
             /\ startup_time' = loaded.startup_time
             /\ monitoring_only' = apply_iptables_rules(monitoring_only,
                                                        ~IptablesRaises(outcome))
             /\ last' = [op |-> "run_monitoring_loop", old_state |-> current_state,
                         apply_calls |-> 1]
             /\ evaluation' = ApplyRecord("run_monitoring_loop", loaded.current_state,
                                          monitoring_only, outcome)
    /\ UNCHANGED <<now, state_file, activity_detector, processes, active_activities,
                   detection_history, error_history, policy_query, allowlist_query,
                   admission>>

ApplyUpdateState ==
    /\ loop_pc = "looping"
    /\ \E activity_status \in {CurrentStatus} :
       \E downloads_protected \in BOOLEAN, active \in BOOLEAN :
         LET download_status == [downloads_protected |-> downloads_protected,
                                 active |-> active]
             new_state == transition(current_state, download_status, activity_status,
                                     FALSE)
             calls == apply_calls_of_update(current_state, new_state)
         IN  \E outcome \in IptablesOutcomes :
               /\ current_state' = new_state
               /\ monitoring_only' =
                      IF calls > 0
                      THEN apply_iptables_rules(monitoring_only, ~IptablesRaises(outcome))
                      ELSE monitoring_only
               /\ state_file' = save_state(new_state, now, startup_time)
               /\ last' = [op |-> "update_state", old_state |-> current_state,
                           downloads_protected |-> downloads_protected,
                           active |-> active, ready |-> FALSE,
                           protected_again |-> FALSE, apply_calls |-> calls]
               /\ evaluation' =
                      IF calls > 0
                      THEN ApplyRecord("update_state", new_state, monitoring_only, outcome)
                      ELSE [op |-> "update_state", applied |-> FALSE,
                            failed_before |-> evaluation.failed_before]
    /\ UNCHANGED <<now, startup_time, loop_pc, activity_detector, det_vars, policy_query,
                   allowlist_query, admission>>

ApplySetEmergencyBlock ==
    /\ \E outcome \in IptablesOutcomes :
         /\ current_state' = "emergency_block"
         /\ monitoring_only' = apply_iptables_rules(monitoring_only,
                                                    ~IptablesRaises(outcome))
         /\ state_file' = save_state("emergency_block", now, startup_time)
         /\ last' = [op |-> "set_emergency_block", old_state |-> current_state,
                     apply_calls |-> 1]
         /\ evaluation' = ApplyRecord("set_emergency_block", "emergency_block",
                                      monitoring_only, outcome)
    /\ UNCHANGED <<now, startup_time, loop_pc, activity_detector, det_vars, policy_query,
                   allowlist_query, admission>>

NextApply ==
    \/ ApplyRunMonitoringLoop
    \/ ApplyUpdateState
    \/ ApplySetEmergencyBlock

SpecApply == InitApply /\ [][NextApply]_vars

(* ---------------------- loading the pattern file ---------------------- *)
\* The values of ActivityType that the built-in patterns use, and a name that is
\* no value of ActivityType.
KnownActivityNames == {"pip_install", "git_clone", "extension_update"}

ConfiguredNames == KnownActivityNames \cup {"bogus"}

\* _create_default_patterns: the kinds of the built-in patterns, in dict order
default_patterns == <<"pip_install", "git_clone", "extension_update">>

\* What the file at config_path can hold: nothing (no file), bytes that are not
\* UTF-8, text that is not JSON, JSON whose top level is a list, an object whose
\* "activity_patterns" is a list, an object without "activity_patterns", and an
\* object whose "activity_patterns" maps names to a pattern configuration that
\* is an object or a string.
ConfigEntries ==
    {e \in UNION {[1..n -> [name : ConfiguredNames, config : {"object", "string"}]] :
                     n \in 0..MaxConfigEntries} :
        \A i, j \in DOMAIN e : e[i].name = e[j].name => i = j}

ConfigFiles ==
    {[kind |-> k] : k \in {"missing", "not_utf8", "not_json", "top_level_list",
                           "patterns_list", "no_patterns"}}
    \cup {[kind |-> "patterns", entries |-> e] : e \in ConfigEntries}

\* the for loop of _load_patterns: ActivityType(name) raises ValueError for an
\* unknown name, which is caught and the entry skipped; ActivityPattern(...)
\* calls .get on the configuration, an AttributeError for a string, which
\* nothing catches
RECURSIVE load_entries(_, _)
load_entries(entries, patterns) ==
    IF entries = <<>> THEN [raised |-> "none", patterns |-> patterns]
    ELSE LET e == Head(entries)
         IN  IF e.name \notin KnownActivityNames
             THEN load_entries(Tail(entries), patterns)
             ELSE IF e.config # "object"
             THEN [raised |-> "AttributeError", patterns |-> <<>>]
             ELSE load_entries(Tail(entries), Append(patterns, e.name))

\* _load_patterns, as called by the constructor: the exception that leaves the
\* constructor ("none" when it returns) and self.patterns
load_patterns(file) ==
    IF file.kind = "missing" THEN [raised |-> "none", patterns |-> default_patterns]
    ELSE IF file.kind = "not_utf8" THEN [raised |-> "UnicodeDecodeError", patterns |-> <<>>]
    ELSE IF file.kind = "not_json" THEN [raised |-> "none", patterns |-> default_patterns]
    ELSE IF file.kind \in {"top_level_list", "patterns_list"}
    THEN [raised |-> "AttributeError", patterns |-> <<>>]
    ELSE IF file.kind = "no_patterns" THEN [raised |-> "none", patterns |-> <<>>]
    ELSE load_entries(file.entries, <<>>)

InitLoad ==
    /\ InitPure
    /\ \E file \in ConfigFiles : evaluation = [asked |-> FALSE, file |-> file]

EvaluateLoad ==
    /\ ~evaluation.asked
    /\ evaluation' = [asked |-> TRUE, file |-> evaluation.file,
                      result |-> load_patterns(evaluation.file)]
    /\ UNCHANGED <<now, mgr_vars, det_vars, last, policy_query, allowlist_query, admission>>

NextLoad == EvaluateLoad

SpecLoad == InitLoad /\ [][NextLoad]_vars

(* ------------------ detect_activity over the defaults ------------------ *)
\* The three patterns _create_default_patterns appends, in its order.
create_default_patterns ==
    <<[activity_type |-> "pip_install",
       command_patterns |-> <<"pip", "pip3", "python -m pip">>,
       arg_patterns |-> <<"install">>,
       cwd_patterns |-> <<>>,
       parent_patterns |-> <<>>,
       confidence_modifiers |-> <<[key |-> "install_specific_package", value |-> 100],
                                  [key |-> "from_comfyui_directory", value |-> 50]>>,
       base_confidence |-> 900,
       allowed_domains |-> {"pypi.org", "pypi.python.org", "files.pythonhosted.org"},
       duration_estimate |-> 180],
      [activity_type |-> "git_clone",
       command_patterns |-> <<"git">>,
       arg_patterns |-> <<"clone">>,
       cwd_patterns |-> <<>>,
       parent_patterns |-> <<>>,
       confidence_modifiers |-> <<[key |-> "from_comfyui_directory", value |-> 100]>>,
       base_confidence |-> 800,
       allowed_domains |-> {"github.com", "gitlab.com", "bitbucket.org"},
       duration_estimate |-> 120],
      [activity_type |-> "extension_update",
       command_patterns |-> <<"python", "python3">>,
       arg_patterns |-> <<>>,
       cwd_patterns |-> <<"/ComfyUI/custom_nodes">>,
       parent_patterns |-> <<>>,
       confidence_modifiers |-> <<>>,
       base_confidence |-> 850,
       allowed_domains |-> {"github.com", "pypi.org"},
       duration_estimate |-> 240]>>

\* the processes of the repository's detection scenarios
ScenarioCmdlines ==
    {<<"pip", "install", "torch">>,
     <<"pip3", "install", "transformers">>,
     <<"python", "-m", "pip", "install", "numpy">>,
     <<"pip", "upgrade", "torch">>,
     <<"git", "clone", "repo">>,
     <<"python3", "main.py">>}

ScenarioCwds == {"/workspace", "/ComfyUI", "/ComfyUI/custom_nodes"}

InitDefaults ==
    /\ now = 0
    /\ current_state = "startup"
    /\ startup_time = 0
    /\ monitoring_only = TRUE
    /\ state_file = NoFile
    /\ loop_pc = "constructed"
    /\ activity_detector = TRUE
    /\ process_monitor \in {"none", "polling"}
    /\ processes = {}
    /\ active_activities = <<>>
    /\ detection_history = <<>>
    /\ error_history = <<>>
    /\ last = Idle
    /\ policy_query = NoQuery
    /\ allowlist_query = NoQuery
    /\ admission = NoQuery
    /\ \E c \in ScenarioCmdlines, d \in ScenarioCwds, parents \in {<<>>, <<"bash">>} :
         evaluation = [asked |-> FALSE, proc_info |-> [cmdline |-> c, cwd |-> d],
                       lineage |-> <<c[1]>> \o parents]

EvaluateDefaults ==
    /\ ~evaluation.asked
    /\ evaluation' =
           [asked |-> TRUE, proc_info |-> evaluation.proc_info,
            lineage |-> evaluation.lineage,
            result |-> detect_activity(
                           1,
                           [best |-> best_match(create_default_patterns,
                                                evaluation.proc_info, evaluation.lineage)],
                           process_monitor, detection_history, error_history, now)]
    /\ UNCHANGED <<now, mgr_vars, det_vars, last, policy_query, allowlist_query, admission>>

NextDefaults == EvaluateDefaults

SpecDefaults == InitDefaults /\ [][NextDefaults]_vars

(* --------------- the snapshot table and the activity table ------------- *)
\* The processes of the container, one slot per pid: whether a process runs at
\* the pid, how many processes have had the pid so far (the pid's generation;
\* a ProcessInfo carries its start_time), and what the classifier computes for
\* the process. The monitor's ProcessTree keeps, per pid, the ProcessInfo it
\* captured when the pid was new (tree is its generation, 0 when the pid is not
\* in the tree); owner is the generation the activity stored under a pid was
\* detected for (DetectedActivity.process_info), 0 when the table has no entry.
SnapshotPids == {1, 2}

SnapshotShapes == {OtherProc, UnmatchedProc, PipProc}

NoProcesses == [pid \in SnapshotPids |-> 0]

InitSnapshot ==
    /\ now = 0
    /\ current_state = "startup"
    /\ startup_time = 0
    /\ monitoring_only = TRUE
    /\ state_file = NoFile
    /\ loop_pc = "constructed"
    /\ activity_detector = TRUE
    /\ process_monitor = "none"
    /\ processes = {}
    /\ active_activities = <<>>
    /\ detection_history = <<>>
    /\ error_history = <<>>
    /\ last = Idle
    /\ policy_query = NoQuery
    /\ allowlist_query = NoQuery
    /\ admission = NoQuery
    /\ evaluation = [running |-> [pid \in SnapshotPids |-> FALSE],
                     generation |-> NoProcesses,
                     shape |-> [pid \in SnapshotPids |-> OtherProc],
                     tree |-> NoProcesses,
                     owner |-> NoProcesses]

SnapshotFrame ==
    UNCHANGED <<mgr_vars, policy_query, allowlist_query, admission>>

\* the container starts a process; the kernel may hand out a pid used before
ProcessStarts ==
    /\ \E pid \in SnapshotPids, shape \in SnapshotShapes :
         /\ ~evaluation.running[pid]
         /\ evaluation.generation[pid] < MaxReuse
         /\ evaluation' = [evaluation EXCEPT
                              !.running[pid] = TRUE,
                              !.generation[pid] = @ + 1,
                              !.shape[pid] = shape]
    /\ last' = [op |-> "process_starts"]
    /\ UNCHANGED <<now, det_vars>>
    /\ SnapshotFrame

ProcessExits ==
    /\ \E pid \in SnapshotPids :
         /\ evaluation.running[pid]
         /\ evaluation' = [evaluation EXCEPT !.running[pid] = FALSE,
                                            !.shape[pid] = OtherProc]
    /\ last' = [op |-> "process_exits"]
    /\ UNCHANGED <<now, det_vars>>
    /\ SnapshotFrame

\* ActivityDetector.start_monitoring: a new monitor with an empty tree
StartMonitoring ==
    /\ process_monitor = "none"
    /\ process_monitor' = "initial"
    /\ processes' = {}
    /\ evaluation' = [evaluation EXCEPT !.tree = NoProcesses]
    /\ last' = [op |-> "start_monitoring"]
    /\ UNCHANGED <<now, active_activities, detection_history, error_history>>
    /\ SnapshotFrame

\* _monitor_loop: the initial scan fills the tree without callbacks
SnapshotInitialScan ==
    /\ process_monitor = "initial"
    /\ process_monitor' = "polling"
    /\ processes' = {pid \in SnapshotPids : evaluation.running[pid]}
    /\ evaluation' = [evaluation EXCEPT
                         !.tree = [pid \in SnapshotPids |->
                                      IF evaluation.running[pid]
                                      THEN evaluation.generation[pid] ELSE 0]]
    /\ last' = [op |-> "initial_scan"]
    /\ UNCHANGED <<now, active_activities, detection_history, error_history>>
    /\ SnapshotFrame

\* _monitor_loop: one scan followed by _detect_process_changes; a pid found in
\* the tree and in the scan keeps the ProcessInfo of the tree
SnapshotPollCycle ==
    /\ process_monitor = "polling"
    /\ LET current_pids == {pid \in SnapshotPids : evaluation.running[pid]}
           D == [active_activities |-> active_activities,
                 detection_history |-> detection_history,
                 error_history |-> error_history]
           R == detect_process_changes(D, processes, current_pids, evaluation.shape,
                                       process_monitor, now)
           stored(pid) ==
               /\ pid \in current_pids \ processes
               /\ evaluation.shape[pid].interesting
               /\ ~evaluation.shape[pid].raises
               /\ detect_activity(pid, evaluation.shape[pid], process_monitor,
                                  <<>>, <<>>, now).detected
       IN  /\ Len(detection_history)
              + Cardinality({pid \in current_pids \ processes :
                                evaluation.shape[pid].interesting}) <= MaxHist
           /\ processes' = current_pids
           /\ active_activities' = R.active_activities
           /\ detection_history' = R.detection_history
           /\ error_history' = R.error_history
           /\ evaluation' = [evaluation EXCEPT
                  !.tree = [pid \in SnapshotPids |->
                               IF pid \notin current_pids THEN 0
                               ELSE IF pid \in processes THEN evaluation.tree[pid]
                               ELSE evaluation.generation[pid]],
                  !.owner = [pid \in SnapshotPids |->
                               IF stored(pid) THEN evaluation.generation[pid]
                               ELSE IF TableIndex(R.active_activities, pid) = 0 THEN 0
                               ELSE evaluation.owner[pid]]]
           /\ last' = [op |-> "poll_cycle", previous_pids |-> processes,
                       current_pids |-> current_pids]
    /\ UNCHANGED <<now, process_monitor>>
    /\ SnapshotFrame

\* ActivityDetector.stop_monitoring: the monitor is stopped and forgotten, the
\* activity table is left as it is
StopMonitoring ==
    /\ process_monitor # "none"
    /\ process_monitor' = "none"
    /\ processes' = {}
    /\ evaluation' = [evaluation EXCEPT !.tree = NoProcesses]
    /\ last' = [op |-> "stop_monitoring"]
    /\ UNCHANGED <<now, active_activities, detection_history, error_history>>
    /\ SnapshotFrame

NextSnapshot ==
    \/ ProcessStarts
    \/ ProcessExits
    \/ StartMonitoring
    \/ SnapshotInitialScan
    \/ SnapshotPollCycle
    \/ StopMonitoring

SpecSnapshot == InitSnapshot /\ [][NextSnapshot]_vars

(* ------------------ the operations that read the table ---------------- *)
\* A detector whose table holds activities of two pids, and the operations
\* that run while they are held: the tick of the state machine (which asks for
\* the activity status and the health status), the status query, the admission
\* check, and poll cycles that find pids ended and new pids (each new
\* interesting pid is a health update).
FramePids == {1, 2}

FrameShapes ==
    {PipProc,
     [interesting |-> TRUE, raises |-> FALSE,
      best |-> [matched |-> TRUE, activity_type |-> "git_clone", confidence |-> 200,
                allowed_domains |-> {"github.com"}, duration_estimate |-> 120]]}

FrameDomains == {"pypi.org", "example.com"}

InitFrame ==
    /\ now = 0
    /\ current_state = "startup"
    /\ startup_time = 0
    /\ monitoring_only = TRUE
    /\ state_file = NoFile
    /\ loop_pc = "looping"
    /\ activity_detector = TRUE
    /\ process_monitor = "polling"
    /\ processes = {}
    /\ active_activities = <<>>
    /\ detection_history = <<>>
    /\ error_history = <<>>
    /\ last = Idle
    /\ policy_query = NoQuery
    /\ allowlist_query = NoQuery
    /\ admission = NoQuery
    /\ evaluation = NoQuery

\* _monitor_loop: one scan followed by _detect_process_changes
FramePollCycle ==
    /\ \E current_pids \in SUBSET FramePids :
       \E shapes \in [current_pids \ processes -> FrameShapes] :
         LET D == [active_activities |-> active_activities,
                   detection_history |-> detection_history,
                   error_history |-> error_history]
             R == detect_process_changes(D, processes, current_pids, shapes,
                                         process_monitor, now)
         IN  /\ current_pids # processes
             /\ Len(detection_history) + Cardinality(current_pids \ processes)
                   <= MaxHist
             /\ processes' = current_pids
             /\ active_activities' = R.active_activities
             /\ detection_history' = R.detection_history
             /\ error_history' = R.error_history
             /\ last' = [op |-> "poll_cycle"]
    /\ UNCHANGED <<now, mgr_vars, process_monitor, qry_vars>>

\* should_allow_connection, asked by the admission path
FrameAdmission ==
    /\ \E domain \in FrameDomains :
         last' = [op |-> "should_allow_connection", domain |-> domain,
                  result |-> should_allow_connection(active_activities, domain, 443)]
    /\ UNCHANGED <<now, mgr_vars, det_vars, qry_vars>>

\* get_status: the activity status and the allow-set computed from it
FrameStatus ==
    /\ last' = [op |-> "get_status",
                system_healthy |-> CurrentStatus.system_healthy,
                allowed |-> get_current_allowlist(current_state, CurrentStatus)]
    /\ UNCHANGED <<now, mgr_vars, det_vars, qry_vars>>

NextFrame ==
    \/ FramePollCycle
    \/ UpdateState
    \/ FrameAdmission
    \/ FrameStatus

SpecFrame == InitFrame /\ [][NextFrame]_vars

(* -------------- the allow-set handed to the packet filter -------------- *)
\* A manager in active blocking mode over a detector whose table changes in
\* poll cycles. evaluation keeps what apply_iptables_rules last handed to
\* iptables: the allow-set it computed (get_current_allowlist, line 329), or
\* nothing when the commands raised. The clock stands at the manager's start,
\* where should_transition_to_strict answers False.
NothingApplied == [applied |-> FALSE]

AllowApply(state, mon_only, outcome) ==
    IF ~privacy_enabled \/ mon_only THEN evaluation
    ELSE IF IptablesRaises(outcome) THEN NothingApplied
    ELSE [applied |-> TRUE, allowlist |-> get_current_allowlist(state, CurrentStatus)]

InitAllow ==
    /\ now = 0
    /\ current_state = "startup"
    /\ startup_time = 0
    /\ monitoring_only = FALSE
    /\ state_file = NoFile
    /\ loop_pc = "constructed"
    /\ activity_detector = TRUE
    /\ process_monitor = "polling"
    /\ processes = {}
    /\ active_activities = <<>>
    /\ detection_history = <<>>
    /\ error_history = <<>>
    /\ last = Idle
    /\ policy_query = NoQuery
    /\ allowlist_query = NoQuery
    /\ admission = NoQuery
    /\ evaluation = NothingApplied

\* run_monitoring_loop up to its while loop: the initial rules
AllowRunMonitoringLoop ==
    /\ loop_pc = "constructed"
    /\ LET loaded == load_state(state_file, current_state, startup_time, now)
       IN  \E outcome \in IptablesOutcomes :
             /\ loop_pc' = "looping"
             /\ current_state' = loaded.current_state
             /\ startup_time' = loaded.startup_time
             /\ monitoring_only' = apply_iptables_rules(monitoring_only,
                                                        ~IptablesRaises(outcome))
             /\ last' = [op |-> "run_monitoring_loop", old_state |-> current_state,
                         apply_calls |-> 1]
             /\ evaluation' = AllowApply(loaded.current_state, monitoring_only, outcome)
    /\ UNCHANGED <<now, state_file, activity_detector, det_vars, policy_query,
                   allowlist_query, admission>>

\* one tick: update_state applies the rules when the state has changed
AllowUpdateState ==
    /\ loop_pc = "looping"
    /\ \E activity_status \in {CurrentStatus} :
       \E downloads_protected \in BOOLEAN, active \in BOOLEAN :
         LET download_status == [downloads_protected |-> downloads_protected,
                                 active |-> active]
             new_state == transition(current_state, download_status, activity_status,
                                     FALSE)
             calls == apply_calls_of_update(current_state, new_state)
         IN  \E outcome \in (IF calls > 0 /\ ~monitoring_only
                              THEN IptablesOutcomes ELSE {"ok"}) :
               /\ current_state' = new_state
               /\ monitoring_only' =
                      IF calls > 0
                      THEN apply_iptables_rules(monitoring_only, ~IptablesRaises(outcome))
                      ELSE monitoring_only
               /\ state_file' = save_state(new_state, now, startup_time)
               /\ last' = [op |-> "update_state", old_state |-> current_state,
                           apply_calls |-> calls]
               /\ evaluation' = IF calls > 0
                                THEN AllowApply(new_state, monitoring_only, outcome)
                                ELSE evaluation
    /\ UNCHANGED <<now, startup_time, loop_pc, activity_detector, det_vars, policy_query,
                   allowlist_query, admission>>

NextAllow ==
    \/ AllowRunMonitoringLoop
    \/ AllowUpdateState
    \/ FramePollCycle

SpecAllow == InitAllow /\ [][NextAllow]_vars

(* ------------------- starting and stopping the pollers ---------------- *)
\* ActivityDetector.start_monitoring builds a new ContainerProcessMonitor with a
\* thread of its own; stop_monitoring clears the monitor's flag, joins its
\* thread for at most 5 seconds and forgets the monitor. evaluation.monitors
\* lists the monitors built so far: the flag self.monitoring, where the thread
\* is (at the test of its while loop, inside a cycle, ended). run_monitoring_loop leaves its while
\* loop by KeyboardInterrupt or by another exception (update_state raises when
\* log() cannot write the log file).
InitStop ==
    /\ now = 0
    /\ current_state = "startup"
    /\ startup_time = 0
    /\ monitoring_only = TRUE
    /\ state_file = NoFile
    /\ loop_pc = "constructed"
    /\ activity_detector = TRUE
    /\ process_monitor = "none"
    /\ processes = {}
    /\ active_activities = <<>>
    /\ detection_history = <<>>
    /\ error_history = <<>>
    /\ last = Idle
    /\ policy_query = NoQuery
    /\ allowlist_query = NoQuery
    /\ admission = NoQuery
    /\ evaluation = [monitors |-> <<>>]

StopFrame ==
    UNCHANGED <<now, current_state, startup_time, monitoring_only, state_file,
                activity_detector, processes, active_activities, detection_history,
                error_history, policy_query, allowlist_query, admission>>

\* run_monitoring_loop up to its while loop; start_monitoring returns at once
\* when the detector has a monitor
LoopStarts ==
    /\ loop_pc \in {"constructed", "exited"}
    /\ Len(evaluation.monitors) < MaxStarts
    /\ loop_pc' = "looping"
    /\ IF process_monitor = "none"
       THEN /\ process_monitor' = "polling"
            /\ evaluation' = [monitors |->
                   Append(evaluation.monitors,
                          [monitoring |-> TRUE, thread |-> "test"])]
       ELSE UNCHANGED <<process_monitor, evaluation>>
    /\ last' = [op |-> "run_monitoring_loop"]
    /\ StopFrame

\* _monitor_loop: the test of the while loop
PollerTests ==
    /\ \E k \in DOMAIN evaluation.monitors :
         LET m == evaluation.monitors[k]
         IN  /\ m.thread = "test"
             /\ evaluation' = [monitors |->
                    [evaluation.monitors EXCEPT ![k] =
                        IF m.monitoring
                        THEN [m EXCEPT !.thread = "cycle"]
                        ELSE [m EXCEPT !.thread = "ended"]]]
    /\ last' = [op |-> "poller_tests"]
    /\ UNCHANGED <<loop_pc, process_monitor>>
    /\ StopFrame

\* _monitor_loop: one scan, _detect_process_changes and sleep
PollerCycles ==
    /\ \E k \in DOMAIN evaluation.monitors :
         LET m == evaluation.monitors[k]
         IN  /\ m.thread = "cycle"
             /\ evaluation' = [monitors |->
                    [evaluation.monitors EXCEPT ![k] = [m EXCEPT !.thread = "test"]]]
    /\ last' = [op |-> "poller_cycles"]
    /\ UNCHANGED <<loop_pc, process_monitor>>
    /\ StopFrame

\* ActivityDetector.stop_monitoring; the join returns when the thread has ended
\* or after 5 seconds, whichever comes first
stop_monitoring(monitors, pm) ==
    IF pm = "none" THEN monitors
    ELSE [monitors EXCEPT ![Len(monitors)] = [@ EXCEPT !.monitoring = FALSE]]

\* the while loop ends in KeyboardInterrupt: the handler stops the detector
LoopInterrupted ==
    /\ loop_pc = "looping"
    /\ loop_pc' = "exited"
    /\ evaluation' = [monitors |-> stop_monitoring(evaluation.monitors, process_monitor)]
    /\ process_monitor' = "none"
    /\ last' = [op |-> "keyboard_interrupt"]
    /\ StopFrame

\* the while loop ends in another exception: the handler logs it
LoopFails ==
    /\ loop_pc = "looping"
    /\ loop_pc' = "exited"
    /\ last' = [op |-> "exception"]
    /\ UNCHANGED <<process_monitor, evaluation>>
    /\ StopFrame

NextStop ==
    \/ LoopStarts
    \/ PollerTests
    \/ PollerCycles
    \/ LoopInterrupted
    \/ LoopFails

SpecStop == InitStop /\ [][NextStop]_vars

(* ------------------------ properties: the tick ------------------------- *)
\* update_state changes neither the clock nor the detector, so after a tick
\* (last.op = "update_state") the table and the health figures of the state are
\* the ones the tick read; last holds the answers its other collaborators gave.
Ticked == last.op = "update_state"

HighConfidenceActive ==
    /\ activity_detector
    /\ \E i \in 1..Len(active_activities) :
         active_activities[i].confidence >= activity_confidence_threshold

NoActivityTracked == ~activity_detector \/ Len(active_activities) = 0

ReportedHealthy ==
    \/ ~activity_detector
    \/ /\ get_health_score(detection_history, now) > 5 * ScoreDen
       /\ ~should_fallback(detection_history, error_history, now)

C2_StartupTick ==
    (Ticked /\ last.old_state = "startup")
        => current_state =
             IF last.active THEN "downloads_active"
             ELSE IF HighConfidenceActive THEN "activity_detected"
             ELSE IF /\ now - startup_time >= startup_safety_buffer
                     /\ last.ready
                     /\ ~last.protected_again
                  THEN "strict"
             ELSE "startup"

C2_Witness ==
    /\ Ticked
    /\ last.old_state = "startup"
    /\ ~last.active
    /\ ~HighConfidenceActive
    /\ now - startup_time >= startup_safety_buffer
    /\ last.ready
    /\ ~last.protected_again
    /\ current_state = "strict"

\* C3: a tick taken in downloads_active while the download status still
\* reports active downloads leaves the state downloads_active.
C3_StaysWhileDownloadsActive ==
    (Ticked /\ last.old_state = "downloads_active" /\ last.active)
        => current_state = "downloads_active"

C5_ActivityDetectedTick ==
    (Ticked /\ last.old_state = "activity_detected")
        => /\ current_state =
                IF last.active THEN "downloads_active"
                ELSE IF NoActivityTracked
                THEN (IF ReportedHealthy THEN "strict" ELSE "activity_detected")
                ELSE "activity_detected"
           /\ (current_state = "activity_detected" => last.apply_calls = 0)

C5_Witness ==
    /\ Ticked
    /\ last.old_state = "activity_detected"
    /\ ~last.active
    /\ NoActivityTracked
    /\ should_fallback(detection_history, error_history, now)
    /\ current_state = "activity_detected"
    /\ last.apply_calls = 0

\* C6: after a tick taken in strict the state is downloads_active if downloads
\* were active, else activity_detected if a tracked activity has confidence >=
\* the threshold, else still strict.
C6_StrictTick ==
    (Ticked /\ last.old_state = "strict")
        => current_state =
             IF last.active THEN "downloads_active"
             ELSE IF HighConfidenceActive THEN "activity_detected"
             ELSE "strict"

C6_Witness ==
    /\ Ticked
    /\ last.old_state = "strict"
    /\ ~last.active
    /\ HighConfidenceActive
    /\ current_state = "activity_detected"

\* C7: no tick enters emergency_block: every step that takes the state from
\* another state to emergency_block is a set_emergency_block command, never an
\* update_state, whatever its collaborators answered.
C7_EmergencyOnlyByCommand ==
    [][(current_state' = "emergency_block" /\ current_state # "emergency_block")
          => last'.op = "set_emergency_block"]_vars

C7_Witness ==
    /\ Ticked
    /\ last.old_state = "emergency_block"
    /\ current_state = "emergency_block"
    /\ last.active

(* ------------- properties: allow-set, admission, policy ---------------- *)
\* the allowed_domains of the tracked activities with confidence >= threshold
ListedFrom(threshold) ==
    UNION {active_activities[i].allowed_domains :
             i \in {j \in 1..Len(active_activities) :
                      active_activities[j].confidence >= threshold}}

\* C8: the allow-set computed for a state and a table is: startup = model
\* sources plus startup domains; downloads_active = model sources only;
\* activity_detected = model sources plus the allowed_domains of every activity
\* with confidence >= the activity threshold; strict = model sources plus the
\* allowed_domains of the activities with confidence >= 0.9 only;
\* emergency_block = the empty set.
C8_AllowSetPerState ==
    allowlist_query.asked
        => allowlist_query.allowed =
             CASE current_state = "startup" -> allowed_domains \cup startup_domains
               [] current_state = "downloads_active" -> allowed_domains
               [] current_state = "activity_detected" ->
                      allowed_domains \cup ListedFrom(activity_confidence_threshold)
               [] current_state = "strict" ->
                      allowed_domains \cup ListedFrom((9 * ONE) \div 10)
               [] current_state = "emergency_block" -> {}

C8_Witness ==
    /\ allowlist_query.asked
    /\ current_state = "strict"
    /\ \E i, j \in 1..Len(active_activities) :
         /\ active_activities[i].confidence >= (9 * ONE) \div 10
         /\ active_activities[i].allowed_domains \subseteq allowlist_query.allowed
         /\ active_activities[j].confidence >= activity_confidence_threshold
         /\ active_activities[j].confidence < (9 * ONE) \div 10
         /\ active_activities[j].allowed_domains \cap allowlist_query.allowed = {}

\* what one activity answers to a request for a domain
Grants(activity, domain) ==
    \/ domain \in activity.allowed_domains
    \/ activity.policy_action \in {"allow_unrestricted", "allow_with_monitoring"}

GrantReason(activity, domain) ==
    IF domain \in activity.allowed_domains
    THEN <<activity.activity_type, "confidence", (activity.confidence + 5) \div 10>>
    ELSE IF activity.policy_action = "allow_unrestricted"
    THEN <<activity.activity_type, "unrestricted">>
    ELSE <<activity.activity_type, "monitored">>

\* C9: the admission check answers with the first activity, in insertion order,
\* that grants: "<kind> (confidence X)" if the domain is listed by it, else
\* "<kind> (unrestricted)" / "<kind> (monitored)" by its policy; an activity
\* with policy strict_allowlist (or a lower one) that does not list the domain
\* grants nothing; with no granting activity the answer is deny,
\* "no_active_activity".
C9_FirstGrantWins ==
    admission.asked
        => LET table == active_activities
               granting == {i \in 1..Len(table) : Grants(table[i], admission.domain)}
           IN  /\ IF granting = {}
                  THEN admission.result =
                           [allow |-> FALSE, reason |-> <<"no_active_activity">>]
                  ELSE admission.result =
                           [allow |-> TRUE,
                            reason |-> GrantReason(table[Min(granting)], admission.domain)]
               /\ (\A i \in 1..Len(table) :
                      /\ table[i].policy_action = "strict_allowlist"
                      /\ admission.domain \notin table[i].allowed_domains)
                    => ~admission.result.allow

C9_Witness ==
    /\ admission.asked
    /\ Len(active_activities) = 2
    /\ Grants(active_activities[1], admission.domain)
    /\ Grants(active_activities[2], admission.domain)
    /\ admission.domain \in active_activities[2].allowed_domains
    /\ admission.result.reason = <<active_activities[1].activity_type, "unrestricted">>

Restrictiveness(action) ==
    CASE action = "allow_unrestricted" -> 0
      [] action = "allow_with_monitoring" -> 1
      [] action = "strict_allowlist" -> 2
      [] action = "emergency_review" -> 3
      [] action = "block_all" -> 4

C11_PolicyExamples ==
    policy_query.asked
        => LET c == policy_query.confidence
               action == policy_query.action
           IN  /\ c = (95 * ONE) \div 100 => action = "allow_unrestricted"
               /\ c \in {(75 * ONE) \div 100, (85 * ONE) \div 100}
                    => action = "allow_with_monitoring"
               /\ c \in {(55 * ONE) \div 100, (65 * ONE) \div 100}
                    => action = "strict_allowlist"
               /\ c = (25 * ONE) \div 100 => action = "emergency_review"
               /\ c = (5 * ONE) \div 100 => action = "block_all"

(* ------------------------- properties: match --------------------------- *)
Range(seq) == {seq[i] : i \in 1..Len(seq)}

\* some command rule of the evaluated pattern accepts the process's command
CommandRuleAccepts ==
    \E rule \in Range(evaluation.pattern.command_patterns) :
        matches_pattern(rule, Head(evaluation.proc_info.cmdline))

\* the interpreter exemption: a rule names python, the command is a python and
\* an argument names pip
ExemptionFires ==
    /\ \E rule \in Range(evaluation.pattern.command_patterns) :
          matches_pattern("python", rule)
    /\ matches_pattern("python", Head(evaluation.proc_info.cmdline))
    /\ \E arg \in Range(evaluation.proc_info.cmdline) : matches_pattern("pip", arg)

\* C12: match returns no-match for every process whose command fails every
\* command rule of the pattern and for which the interpreter exemption does not
\* fire, whatever its arguments, directory, ancestors and modifiers.
C12_CommandMatchMandatory ==
    (evaluation.asked /\ ~CommandRuleAccepts /\ ~ExemptionFires)
        => evaluation.result = [matched |-> FALSE]

C12_Witness ==
    /\ evaluation.asked
    /\ ~CommandRuleAccepts
    /\ ~ExemptionFires
    /\ \E rule \in Range(evaluation.pattern.arg_patterns) :
          rule \in Range(evaluation.proc_info.cmdline)
    /\ \E rule \in Range(evaluation.pattern.cwd_patterns) :
          matches_pattern(rule, evaluation.proc_info.cwd)
    /\ \E rule \in Range(evaluation.pattern.parent_patterns) :
          rule \in Range(evaluation.lineage)
    /\ \E m \in Range(evaluation.pattern.confidence_modifiers) :
          check_modifier(m.key, evaluation.proc_info)
    /\ evaluation.result = [matched |-> FALSE]

\* C13: every confidence match returns lies in [0, 1]: it is 1.0 when the
\* accumulated score times the base confidence is 1 or more (a score of 5
\* included) and 0 when that product is negative.
C13_ConfidenceClamped ==
    (evaluation.asked /\ evaluation.result.matched)
        => LET scaled ==
                   raw_confidence(evaluation.pattern, evaluation.proc_info,
                                  evaluation.lineage) * evaluation.pattern.base_confidence
           IN  /\ evaluation.result.confidence >= 0
               /\ evaluation.result.confidence <= ONE
               /\ scaled >= ONE * ONE => evaluation.result.confidence = ONE
               /\ scaled < 0 => evaluation.result.confidence = 0

C13_Witness ==
    /\ evaluation.asked
    /\ evaluation.result.matched
    /\ raw_confidence(evaluation.pattern, evaluation.proc_info, evaluation.lineage)
          >= 5 * ONE
    /\ evaluation.pattern.base_confidence > 0
    /\ evaluation.result.confidence = ONE

(* --------------------- properties: detect_activity --------------------- *)
\* what match returns for the i-th loaded pattern and the evaluated process
PatternConfidence(i) ==
    match(evaluation.patterns[i], evaluation.proc_info, evaluation.lineage)

MatchedPatterns ==
    {i \in 1..Len(evaluation.patterns) : PatternConfidence(i).matched}

\* the first pattern in load order among those of highest confidence
SelectedPattern ==
    CHOOSE i \in MatchedPatterns :
        /\ \A j \in MatchedPatterns :
              PatternConfidence(j).confidence <= PatternConfidence(i).confidence
        /\ \A j \in MatchedPatterns :
              PatternConfidence(j).confidence = PatternConfidence(i).confidence => i <= j

\* C14: detect_activity selects the loaded pattern of highest confidence, the
\* first in load order on ties; it returns none when no pattern matched or the
\* best confidence is below 0.1, and otherwise an activity of the selected
\* pattern's kind with that pattern's allowed domains and duration estimate.
C14_ClassifySelectsBest ==
    evaluation.asked =>
        IF MatchedPatterns = {}
           \/ PatternConfidence(SelectedPattern).confidence < MIN_CONFIDENCE
        THEN ~evaluation.result.detected
        ELSE /\ evaluation.result.detected
             /\ evaluation.result.activity_type
                    = evaluation.patterns[SelectedPattern].activity_type
             /\ evaluation.result.allowed_domains
                    = evaluation.patterns[SelectedPattern].allowed_domains
             /\ evaluation.result.duration_estimate
                    = evaluation.patterns[SelectedPattern].duration_estimate

\* the same statement for a detector whose process monitor is attached
C14_WithProcessMonitor == process_monitor # "none" => C14_ClassifySelectsBest

\* two loaded patterns tie at the highest confidence, over the floor, and differ
C14_TieSeen ==
    /\ evaluation.asked
    /\ process_monitor # "none"
    /\ MatchedPatterns # {}
    /\ PatternConfidence(SelectedPattern).confidence >= MIN_CONFIDENCE
    /\ \E j \in MatchedPatterns :
          /\ j > SelectedPattern
          /\ PatternConfidence(j).confidence = PatternConfidence(SelectedPattern).confidence
          /\ evaluation.patterns[j].allowed_domains
                # evaluation.patterns[SelectedPattern].allowed_domains

(* -------------------- properties: the health monitor ------------------- *)
\* the entries record_detection keeps: those younger than the long window
Kept(entries, t) == SelectSeq(entries, LAMBDA e : e.timestamp > t - long_window)

\* the poll cycle that ran last classified a process, nothing was raised and no
\* activity came out of it
NoActivityAttempt ==
    /\ evaluation.op = "poll_cycle"
    /\ \E pid \in DOMAIN evaluation.shapes :
          /\ ~evaluation.shapes[pid].raises
          /\ ~evaluation.shapes[pid].best.matched

InWindow(window) ==
    {i \in 1..Len(detection_history) : detection_history[i].timestamp >= now - window}

Successes(window) == {i \in InWindow(window) : detection_history[i].success}

RECURSIVE ConfidenceSum(_)
ConfidenceSum(S) ==
    IF S = {} THEN 0
    ELSE LET i == CHOOSE x \in S : TRUE
         IN  detection_history[i].confidence + ConfidenceSum(S \ {i})

\* 0.7 * success_rate + 0.3 * average confidence of the successes, in units of
\* 1 / ScoreDen; 1.0 for a window without samples
WindowScore(window) ==
    IF InWindow(window) = {} THEN ScoreDen
    ELSE (7 * ONE * HistLcm * Cardinality(Successes(window)))
             \div Cardinality(InWindow(window))
         + (IF Successes(window) = {} THEN 0
            ELSE (3 * HistLcm * ConfidenceSum(Successes(window)))
                     \div Cardinality(Successes(window)))

\* C16: health_score = 0.5 * short + 0.3 * medium + 0.2 * long, each window
\* scoring 0.7 * success_rate + 0.3 * average confidence of its successful
\* samples over the samples with timestamp >= now - window, an empty window
\* scoring 1.0; with no samples at all the health score is exactly 1.0.
C16_HealthScoreFormula ==
    evaluation.op = "get_health_status"
        => /\ evaluation.status.health_score
                 = 5 * WindowScore(short_window) + 3 * WindowScore(medium_window)
                   + 2 * WindowScore(long_window)
           /\ detection_history = <<>> => evaluation.status.health_score = 10 * ScoreDen

\* one sample in the short window, one more in the medium window, one more in
\* the long window (on its boundary), a failure and a success among them
C16_Witness ==
    /\ evaluation.op = "get_health_status"
    /\ Cardinality(InWindow(short_window)) = 1
    /\ Cardinality(InWindow(medium_window)) = 2
    /\ Cardinality(InWindow(long_window)) = 3
    /\ \E i \in InWindow(long_window) : detection_history[i].timestamp = now - long_window
    /\ Successes(long_window) \notin {{}, InWindow(long_window)}
    /\ evaluation.status.health_score < 10 * ScoreDen

\* the error samples within the short window
RecentErrors ==
    {i \in 1..Len(error_history) : error_history[i].timestamp > now - short_window}

\* C17: with a health score that does not ask for the fallback by itself,
\* should_fallback() is true once 6 error samples lie within the short window
\* and false with 5 or fewer.
C17_FallbackAtSixErrors ==
    (evaluation.op = "get_health_status"
     /\ evaluation.status.health_score >= 3 * ScoreDen)
        => (evaluation.status.should_fallback <=> Cardinality(RecentErrors) >= 6)

C17_Witness ==
    /\ evaluation.op = "get_health_status"
    /\ evaluation.status.health_score >= 3 * ScoreDen
    /\ Cardinality(RecentErrors) = 6
    /\ evaluation.status.should_fallback

\* five errors within the short window, the health score as in C17_Witness
C17_FiveErrorsSeen ==
    /\ evaluation.op = "get_health_status"
    /\ Len(detection_history) = 7
    /\ Cardinality(RecentErrors) = 5
    /\ Len(error_history) = 6
    /\ ~evaluation.status.should_fallback

(* ---------------------- properties: the state file --------------------- *)
\* C18: loading a persisted state whose timestamp is less than 1 hour old
\* restores the state that was persisted; loading one that is 1 hour old or
\* older leaves the machine at Startup.
C18_LoadHonoursFreshFile ==
    [][(last'.op = "run_monitoring_loop" /\ state_file.exists)
         => IF now - state_file.timestamp < 3600
            THEN current_state' = state_file.state
            ELSE current_state' = "startup"]_vars

\* a file of exactly one hour was left aside, and it held another state
C18_Witness ==
    /\ last.op = "run_monitoring_loop"
    /\ state_file.exists
    /\ now - state_file.timestamp = 3600
    /\ state_file.state \notin {"startup", "emergency_block"}
    /\ current_state = "startup"

\* a file younger than one hour was restored
C18_RestoredSeen ==
    /\ last.op = "run_monitoring_loop"
    /\ state_file.exists
    /\ now - state_file.timestamp = PersistStep
    /\ state_file.state \notin {"startup", "emergency_block"}
    /\ current_state = state_file.state

(* -------------------- properties: the shared table --------------------- *)
\* C19: reads of the active-activity table are mutually exclusive with the
\* poller's insertions and removals: while an admission check iterates the
\* table, no callback changes it.
C19_TableReadsExclusive ==
    [][admission.iterating => active_activities' = active_activities]_vars

\* an admission check that ended in the iterator's RuntimeError
C19_IterationBroken ==
    /\ admission.asked
    /\ admission.raised

(* ------------------- properties: the packet filter --------------------- *)
\* the call of apply_iptables_rules in the step ran into one of its except
\* branches
ApplyFailed(e) ==
    /\ e.applied
    /\ privacy_enabled
    /\ ~e.monitoring_only
    /\ e.outcome \in {"checked_command_fails", "run_raises"}

Malformed(file) ==
    \/ file.kind \in {"not_utf8", "not_json", "top_level_list", "patterns_list",
                      "no_patterns"}
    \/ /\ file.kind = "patterns"
       /\ \E i \in DOMAIN file.entries : file.entries[i].config # "object"

\* C21: with a missing or malformed pattern configuration the constructor
\* returns with the built-in default patterns; unknown activity names of a
\* readable file are skipped and the other entries loaded; the detector always
\* ends up with a pattern set that is not empty.
C21_DefaultsOnBadConfig ==
    evaluation.asked =>
        LET file == evaluation.file
            result == evaluation.result
        IN  /\ result.raised = "none"
            /\ (file.kind = "missing" \/ Malformed(file))
                  => result.patterns = default_patterns
            /\ (file.kind = "patterns" /\ ~Malformed(file))
                  => result.patterns
                       = [i \in 1..Len(SelectSeq(file.entries,
                                                 LAMBDA e : e.name \in KnownActivityNames))
                            |-> SelectSeq(file.entries,
                                          LAMBDA e : e.name \in KnownActivityNames)[i].name]
            /\ result.patterns # <<>>

\* the parts of C21 the code keeps: a missing file and text that is not JSON
\* give the default patterns, and unknown names are skipped
C21_MissingOrNotJson ==
    evaluation.asked =>
        /\ evaluation.file.kind \in {"missing", "not_json"}
              => /\ evaluation.result.raised = "none"
                 /\ evaluation.result.patterns = default_patterns
        /\ (evaluation.file.kind = "patterns" /\ ~Malformed(evaluation.file))
              => /\ evaluation.result.raised = "none"
                 /\ \A i \in DOMAIN evaluation.result.patterns :
                       evaluation.result.patterns[i] \in KnownActivityNames

(* ------------------- properties: stopping the pollers ------------------ *)
\* C22: once the state-machine loop has exited, the activity detector's poller
\* has been stopped: the detector holds no monitor and no monitor's flag is
\* still set, so every poller thread ends at its next test and none is left
\* running, also when the loop is started again.
C22_LoopExitStopsPollers ==
    loop_pc = "exited" =>
        /\ process_monitor = "none"
        /\ \A k \in DOMAIN evaluation.monitors : ~evaluation.monitors[k].monitoring

\* the part of C22 the code keeps: a monitor that stop_monitoring has stopped
\* begins no further cycle (its thread is inside the cycle in flight, at the
\* test that ends it, or ended), and the detector never has two monitors whose
\* flag is set
C22_StoppedPollerEnds ==
    /\ \A k \in DOMAIN evaluation.monitors :
          k < Len(evaluation.monitors) => ~evaluation.monitors[k].monitoring
    /\ process_monitor = "none"
          => \A k \in DOMAIN evaluation.monitors :
                last.op = "keyboard_interrupt" => ~evaluation.monitors[k].monitoring

(* ------------------ properties: the default patterns ------------------- *)
PipInstallTorch == [cmdline |-> <<"pip", "install", "torch">>, cwd |-> "/workspace"]

PackageIndexHosts == {"pypi.org", "pypi.python.org", "files.pythonhosted.org"}

\* C23: the process pip install torch in /workspace, classified by a detector
\* with the default patterns, is a pip_install activity with confidence >= 0.8,
\* policy allow_with_monitoring or allow_unrestricted, and allowed domains that
\* include a package-index host.
C23_PipInstallTorchConfident ==
    (evaluation.asked /\ evaluation.proc_info = PipInstallTorch
                      /\ process_monitor = "polling") =>
        /\ evaluation.result.detected
        /\ evaluation.result.activity_type = "pip_install"
        /\ evaluation.result.confidence >= 800
        /\ evaluation.result.policy_action \in {"allow_with_monitoring", "allow_unrestricted"}
        /\ evaluation.result.allowed_domains \cap PackageIndexHosts # {}

\* the parts of C23 the code keeps: the kind and the domains; the confidence
\* is (0.3 + 0.3 + 0.1) * 0.9, which maps to strict_allowlist
C23_PipInstallTorchMonitored ==
    (evaluation.asked /\ evaluation.proc_info = PipInstallTorch
                      /\ process_monitor = "polling") =>
        /\ evaluation.result.detected
        /\ evaluation.result.activity_type = "pip_install"
        /\ evaluation.result.confidence = 630
        /\ evaluation.result.policy_action = "strict_allowlist"
        /\ evaluation.result.allowed_domains \cap PackageIndexHosts # {}

\* no scenario process reaches 0.8 with the default patterns
C23_DefaultsBelowHigh ==
    (evaluation.asked /\ evaluation.result.detected) => evaluation.result.confidence < 800

(* ------------- properties: the snapshot and the activity table --------- *)
EntryOf(table, pid) ==
    IF TableIndex(table, pid) = 0 THEN NoActivity ELSE table[TableIndex(table, pid)]

\* C24: a poll cycle runs the detection callback exactly once for every
\* interesting pid that is new in the scan and for no other pid: a pid that was
\* in the snapshot table before the cycle and is in the scan is not classified
\* again and its entry of the activity table stays as it is; no other operation
\* classifies.
C24_ClassifiedOncePerNewPid ==
    [][IF last'.op = "poll_cycle"
       THEN /\ Len(detection_history') - Len(detection_history)
                 = Cardinality({pid \in last'.current_pids \ last'.previous_pids :
                                   evaluation.shape[pid].interesting})
            /\ \A pid \in last'.current_pids \cap last'.previous_pids :
                  EntryOf(active_activities', pid) = EntryOf(active_activities, pid)
       ELSE /\ detection_history' = detection_history
            /\ active_activities' = active_activities]_vars

\* a poll cycle has found a tracked, interesting pid present again
C24_Witness ==
    /\ last.op = "poll_cycle"
    /\ \E pid \in last.current_pids \cap last.previous_pids :
          /\ evaluation.shape[pid].interesting
          /\ EntryOf(active_activities, pid) # NoActivity

\* C25: an entry of the activity table leaves the table only in a poll cycle
\* that finds its own pid ended, and until then no tick of the state machine,
\* health update, status query or admission check changes it (its confidence
\* and policy action included).
C25_EntryKeptUntilEnded ==
    [][\A pid \in FramePids :
          EntryOf(active_activities, pid) # NoActivity =>
              \/ EntryOf(active_activities', pid) = EntryOf(active_activities, pid)
              \/ /\ EntryOf(active_activities', pid) = NoActivity
                 /\ last'.op = "poll_cycle"
                 /\ pid \in processes \ processes']_vars

\* a tick has run while the table held two entries
C25_Witness ==
    /\ last.op = "update_state"
    /\ Len(active_activities) = 2
    /\ current_state = "activity_detected"

\* C26: whenever the detector's monitor is polling, every pid of the activity
\* table is a pid of the monitor's snapshot table.
C26_TableWithinSnapshot ==
    process_monitor = "polling" =>
        \A i \in DOMAIN active_activities : active_activities[i].pid \in processes

\* the part of C26 the code keeps: from a start on, as long as the monitor is
\* not stopped, every entry added to the table is for a pid of the snapshot
\* table (an entry left by an earlier monitor is never removed by a later one
\* unless its pid is seen again)
C26_EntriesOfThisMonitor ==
    [][(last'.op = "poll_cycle") =>
          \A i \in DOMAIN active_activities' :
              \/ active_activities'[i].pid \in processes'
              \/ EntryOf(active_activities, active_activities'[i].pid)
                    = active_activities'[i]]_vars

\* C27: once a poll cycle has completed, every entry of the activity table
\* belongs to the process that runs at its pid: the entry of a process that has
\* ended is gone, also when another process has taken its pid before the cycle.
C27_EntryOfRunningProcess ==
    last.op = "poll_cycle" =>
        \A i \in DOMAIN active_activities :
            LET pid == active_activities[i].pid
            IN  /\ evaluation.running[pid]
                /\ evaluation.owner[pid] = evaluation.generation[pid]

\* the part of C27 the code keeps: a pid the scan no longer finds loses its
\* entry in that cycle
C27_EndedPidRemoved ==
    last.op = "poll_cycle" =>
        \A pid \in last.previous_pids \ last.current_pids :
            EntryOf(active_activities, pid) = NoActivity

(* ------------------- properties: the applied allow-set ----------------- *)
\* C28: after every tick of a manager in active blocking mode, the allow-set
\* last handed to the packet filter is the allow-set computed for the current
\* state and the current activity table.
C28_AppliedAllowlistCurrent ==
    (last.op = "update_state" /\ ~monitoring_only /\ evaluation.applied) =>
        evaluation.allowlist = get_current_allowlist(current_state, CurrentStatus)

\* the part of C28 the code keeps: after a tick that changed the state
C28_AppliedOnTransition ==
    (last.op = "update_state" /\ last.apply_calls > 0 /\ ~monitoring_only) =>
        /\ evaluation.applied
        /\ evaluation.allowlist = get_current_allowlist(current_state, CurrentStatus)

(* ----------------- properties: the startup safety buffer --------------- *)
\* C29: the state is never Strict while the uptime is below the startup safety
\* buffer, whichever path the ticks took from Startup.
C29_NoStrictBeforeBuffer ==
    current_state = "strict" => now - startup_time >= startup_safety_buffer

\* C29 as amended: a tick moves from Startup directly to Strict only when the
\* uptime has reached the startup safety buffer and the readiness probe has
\* succeeded; the paths through DownloadsActive and ActivityDetected are not
\* held back by the buffer.
C29_DirectStrictAfterBuffer ==
    [][(last'.op = "update_state" /\ current_state = "startup"
                                  /\ current_state' = "strict")
          => /\ now - startup_time >= startup_safety_buffer
             /\ last'.ready]_vars

\* a tick has moved from Startup directly to Strict
C29_Witness ==
    /\ last.op = "update_state"
    /\ last.old_state = "startup"
    /\ current_state = "strict"
    /\ last.ready

\* Strict has been reached through DownloadsActive before the buffer was over
C29_EarlyStrictSeen ==
    ~(/\ current_state = "strict"
      /\ last.op = "update_state"
      /\ last.old_state = "downloads_active"
      /\ now - startup_time < startup_safety_buffer)

(* -------------- properties: the emergency-block command ---------------- *)
\* C30: once the emergency-block command of a separate invocation has saved
\* emergency_block while the monitoring loop runs, every later tick of the loop
\* leaves emergency_block in the state file.
C30_EmergencyFileKept ==
    [][(/\ loop_pc = "looping"
        /\ state_file.exists
        /\ state_file.state = "emergency_block"
        /\ last'.op = "update_state")
          => state_file'.state = "emergency_block"]_vars

\* the part of C30 the code keeps: a loop whose own state is emergency_block
\* (restored from the file by a later start of the monitor) saves it on every
\* tick
C30_OwnEmergencyStateSaved ==
    [][(current_state = "emergency_block" /\ last'.op = "update_state")
          => state_file'.state = "emergency_block"]_vars

(* ------------------ properties: EmergencyBlock and ticks --------------- *)
\* C31: a tick that starts in EmergencyBlock ends in EmergencyBlock and calls
\* apply_iptables_rules not at all, whatever the download, activity and
\* readiness signals of the tick are.
C31_EmergencyBlockAbsorbing ==
    [][(current_state = "emergency_block" /\ last'.op = "update_state")
          => /\ current_state' = "emergency_block"
             /\ last'.apply_calls = 0
             /\ monitoring_only' = monitoring_only]_vars

\* a tick has run in EmergencyBlock while downloads were reported active
C31_Witness ==
    /\ last.op = "update_state"
    /\ last.old_state = "emergency_block"
    /\ last.active
    /\ active_activities # <<>>
    /\ current_state = "emergency_block"

(* --------------- leaving ActivityDetected when all is quiet ------------ *)
\* The loop ticks while the poller classifies new processes and the clock runs
\* past the longest health window. The environment may fall quiet: from then on
\* no new process is seen (ended ones still are) and no download is reported.
RecoverClock == {short_window, medium_window, long_window, long_window + short_window}

InitRecover ==
    /\ now = 0
    /\ current_state = "startup"
    /\ startup_time = 0
    /\ monitoring_only = TRUE
    /\ state_file = NoFile
    /\ loop_pc = "looping"
    /\ activity_detector = TRUE
    /\ process_monitor = "polling"
    /\ processes = {}
    /\ active_activities = <<>>
    /\ detection_history = <<>>
    /\ error_history = <<>>
    /\ last = Idle
    /\ policy_query = NoQuery
    /\ allowlist_query = NoQuery
    /\ admission = NoQuery
    /\ evaluation = [op |-> "environment", quiet |-> FALSE]

RecoverPollCycle ==
    /\ \E current_pids \in {{}, {1}} \ {processes} :
       \E shapes \in [current_pids \ processes -> BurstShapes] :
         LET D == [active_activities |-> active_activities,
                   detection_history |-> detection_history,
                   error_history |-> error_history]
             R == detect_process_changes(D, processes, current_pids, shapes,
                                         process_monitor, now)
         IN  /\ current_pids \ processes # {}
                    => ~evaluation.quiet /\ now < short_window
             /\ Len(detection_history) + Cardinality(current_pids \ processes)
                    <= MaxSamples
             /\ processes' = current_pids
             /\ active_activities' = R.active_activities
             /\ detection_history' = R.detection_history
             /\ error_history' = R.error_history
    /\ last' = Idle
    /\ UNCHANGED <<now, mgr_vars, process_monitor, qry_vars>>

RecoverTimePasses ==
    /\ \E t \in RecoverClock : t > now
    /\ now' = Min({t \in RecoverClock : t > now})
    /\ last' = Idle
    /\ UNCHANGED <<mgr_vars, det_vars, qry_vars>>

FallsQuiet ==
    /\ ~evaluation.quiet
    /\ evaluation' = [evaluation EXCEPT !.quiet = TRUE]
    /\ last' = Idle
    /\ UNCHANGED <<now, mgr_vars, det_vars, policy_query, allowlist_query, admission>>

\* a tick of run_monitoring_loop; in the quiet phase get_download_status
\* reports no active download
RecoverTick ==
    \E activity_status \in {CurrentStatus} :
    \E downloads_protected \in BOOLEAN :
    \E active \in (IF evaluation.quiet THEN {FALSE} ELSE BOOLEAN) :
      LET download_status == [downloads_protected |-> downloads_protected, active |-> active]
          probes == /\ current_state = "startup"
                    /\ ~active
                    /\ ~activity_status.has_high_confidence_activity
          asks_ready == probes /\ ~(now - startup_time < startup_safety_buffer)
      IN  \E ready \in (IF asks_ready THEN BOOLEAN ELSE {FALSE}) :
          \E protected_again \in (IF asks_ready /\ ready THEN BOOLEAN ELSE {FALSE}) :
            LET strict_ok == should_transition_to_strict(now, startup_time, ready,
                                                         protected_again)
                new_state == transition(current_state, download_status, activity_status,
                                        strict_ok)
                calls == apply_calls_of_update(current_state, new_state)
            IN  \E ipt_ok \in (IF calls = 0 \/ monitoring_only \/ ~privacy_enabled
                               THEN {TRUE} ELSE BOOLEAN) :
                  /\ current_state' = new_state
                  /\ monitoring_only' = IF calls > 0
                                        THEN apply_iptables_rules(monitoring_only, ipt_ok)
                                        ELSE monitoring_only
                  /\ state_file' = save_state(new_state, now, startup_time)
                  /\ last' = [op |-> "update_state"]
    /\ UNCHANGED <<now, startup_time, loop_pc, activity_detector, det_vars, qry_vars>>

NextRecover ==
    \/ RecoverPollCycle
    \/ RecoverTimePasses
    \/ FallsQuiet
    \/ RecoverTick

\* run_monitoring_loop calls update_state in every round of its while loop, and
\* time.time() keeps advancing
SpecRecover ==
    /\ InitRecover
    /\ [][NextRecover]_vars
    /\ WF_vars(RecoverTick)
    /\ WF_vars(RecoverTimePasses)

(* --------------- properties: leaving ActivityDetected ------------------ *)
QuietInActivityDetected ==
    /\ evaluation.quiet
    /\ current_state = "activity_detected"
    /\ active_activities = <<>>

\* C32: once the environment is quiet (no new classification attempt, no
\* download) and the table is empty in ActivityDetected, the ticks lead to
\* Strict: the samples leave the health windows as the clock advances.
C32_ActivityDetectedRecovers ==
    QuietInActivityDetected ~> (current_state = "strict")

\* a tick has kept the state in ActivityDetected because the health monitor
\* reported an unhealthy system, with nothing tracked and everything quiet
C32_Witness ==
    /\ QuietInActivityDetected
    /\ last.op = "update_state"
    /\ ~CurrentStatus.system_healthy

(* ------------- properties: admission and the policy action ------------- *)
RestrictedPolicies == {"block_all", "emergency_review"}

\* the first activity of the table, in insertion order, that answers the request
GrantingActivity ==
    active_activities[Min({i \in 1..Len(active_activities) :
                              Grants(active_activities[i], admission.domain)})]

\* C33 (as claimed): an allow result is never granted by an activity whose
\* policy action is block_all or emergency_review.
C33_NoGrantUnderRestrictedPolicy ==
    (admission.asked /\ admission.result.allow)
        => GrantingActivity.policy_action \notin RestrictedPolicies

\* C33 (amended): block_all, emergency_review and strict_allowlist grant nothing
\* by themselves. An allow result names an activity that lists the domain
\* (whatever its policy action, block_all and emergency_review included) or
\* whose policy is allow_unrestricted or allow_with_monitoring; a table whose
\* activities all have one of the three lower policies and do not list the
\* domain yields deny.
C33_RestrictedPolicyGrantsListedOnly ==
    admission.asked
        => LET table == active_activities
               r == admission.result
           IN  /\ r.allow =>
                    \E i \in 1..Len(table) :
                      /\ r.reason[1] = table[i].activity_type
                      /\ \/ /\ r.reason[2] = "confidence"
                            /\ admission.domain \in table[i].allowed_domains
                         \/ /\ r.reason[2] = "unrestricted"
                            /\ table[i].policy_action = "allow_unrestricted"
                         \/ /\ r.reason[2] = "monitored"
                            /\ table[i].policy_action = "allow_with_monitoring"
               /\ (\A i \in 1..Len(table) :
                      /\ table[i].policy_action
                             \in RestrictedPolicies \cup {"strict_allowlist"}
                      /\ admission.domain \notin table[i].allowed_domains)
                    => ~r.allow

\* a listed domain has been allowed by the first activity of the table, whose
\* policy action is block_all
C33_Witness ==
    /\ admission.asked
    /\ Len(active_activities) >= 1
    /\ active_activities[1].policy_action = "block_all"
    /\ admission.domain \in active_activities[1].allowed_domains
    /\ admission.result.allow

(* ------------ properties: the dampening at classification time --------- *)
\* the poll cycle that ran last classified pid 1 and a pattern matched
MatchedAttempt ==
    /\ evaluation.op = "poll_cycle"
    /\ 1 \in DOMAIN evaluation.shapes
    /\ ~evaluation.shapes[1].raises
    /\ evaluation.shapes[1].best.matched

\* C34: the stored confidence is the best match confidence times 0.8 when
\* should_fallback() holds at the time of the classification (before the
\* attempt is recorded) and the best match confidence otherwise; the stored
\* policy action is the policy of the stored confidence. Nothing else enters:
\* two classifications with the same best confidence and the same fallback
\* answer store the same pair, whatever the adaptive threshold is.
C34_DampenedOnFallbackOnly ==
    [][MatchedAttempt'
         => LET best_confidence == evaluation'.shapes[1].best.confidence
                fallback == should_fallback(detection_history, error_history, now)
                stored == IF fallback THEN (best_confidence * 8) \div 10
                          ELSE best_confidence
                entry == EntryOf(active_activities', 1)
            IN  /\ entry.confidence = stored
                /\ entry.policy_action = get_policy_action(stored)]_vars

\* an activity was classified while the fallback was recommended: its best
\* confidence 0.75 is stored as 0.6 with the policy of 0.6
C34_Witness ==
    /\ MatchedAttempt
    /\ evaluation.shapes[1].best.confidence = 750
    /\ EntryOf(active_activities, 1).confidence = 600
    /\ EntryOf(active_activities, 1).policy_action = "strict_allowlist"

(* ------------- properties: the floor of a stored confidence ------------ *)
\* C35 (as claimed): every activity in the table has a confidence of at least
\* the floor 0.1 and at most 1.
C35_StoredAtLeastFloor ==
    \A i \in 1..Len(active_activities) :
        /\ active_activities[i].confidence >= MIN_CONFIDENCE
        /\ active_activities[i].confidence <= ONE

\* C35 (amended): the floor applies to the best match confidence, before the
\* dampening: every activity in the table has a confidence of at least
\* 0.1 * 0.8 = 0.08 and at most 1.
C35_StoredAtLeastDampenedFloor ==
    \A i \in 1..Len(active_activities) :
        /\ active_activities[i].confidence >= (MIN_CONFIDENCE * 8) \div 10
        /\ active_activities[i].confidence <= ONE

\* a match of confidence 0.12 was classified while the fallback was recommended
\* and is stored with 0.096
C35_Witness ==
    /\ MatchedAttempt
    /\ evaluation.shapes[1].best.confidence = 120
    /\ EntryOf(active_activities, 1).confidence = 96

(* ------------- properties: health without raised exceptions ------------ *)
\* C36: when no classification attempt raises, after any sequence of matching
\* and non-matching observations and any passing of time the health score is
\* at least 0.7, should_fallback() is false and the adaptive threshold is the
\* LOW tier.
C36_CalmStaysHealthy ==
    /\ get_health_score(detection_history, now) >= 7 * ScoreDen
    /\ ~should_fallback(detection_history, error_history, now)
    /\ get_adaptive_threshold(detection_history, now) = LOW_CONFIDENCE

\* three observations that matched nothing are in every window: the score is
\* exactly 0.7
C36_Witness ==
    /\ Len(detection_history) = MaxSamples
    /\ \A i \in 1..Len(detection_history) :
          detection_history[i].success /\ detection_history[i].confidence = 0
    /\ get_health_score(detection_history, now) = 7 * ScoreDen
    /\ evaluation.op = "get_health_status"

(* ---------------- properties: the score match accumulates -------------- *)
\* the number of elements of a sequence that satisfy a test
Hits(seq, Test(_)) == Len(SelectSeq(seq, Test))

RECURSIVE WeightOfTrue(_)
WeightOfTrue(modifiers) ==
    IF modifiers = <<>> THEN 0
    ELSE (IF check_modifier(Head(modifiers).key, evaluation.proc_info)
          THEN Head(modifiers).value ELSE 0)
         + WeightOfTrue(Tail(modifiers))

AccumulatedScore ==
    LET pattern == evaluation.pattern
        proc_info == evaluation.proc_info
        ArgMatches(rule) == in_cmdline(rule, proc_info)
        CwdMatches(rule) == matches_pattern(rule, proc_info.cwd)
        AncestorMatches(command) ==
            \E rule \in Range(pattern.parent_patterns) : matches_pattern(rule, command)
    IN  300
        + 300 * Hits(pattern.arg_patterns, ArgMatches)
        + 200 * Hits(pattern.cwd_patterns, CwdMatches)
        + 200 * Hits(evaluation.lineage, AncestorMatches)
        + WeightOfTrue(pattern.confidence_modifiers)

\* C37: the score of a match is 0.3 once for the command (a command rule or
\* the python-pip exemption), 0.3 for every argument rule found in the command
\* line, 0.2 for every directory rule matching cwd, 0.2 for every element of the
\* lineage that matches at least one parent rule, and the weight of every
\* modifier that holds; match returns clamp(score * base_confidence, 0, 1).
C37_ScoreAccumulation ==
    (evaluation.asked /\ evaluation.result.matched)
        => LET scaled == (AccumulatedScore * evaluation.pattern.base_confidence) \div ONE
           IN  evaluation.result.confidence
                   = IF scaled < 0 THEN 0 ELSE IF scaled > ONE THEN ONE ELSE scaled

\* a match below the clamp in which two argument rules are found, and an
\* ancestor python3 matches the parent rules python and python3 and scores once:
\* (0.3 + 0.6 + 0.2) * 0.9
C37_Witness ==
    /\ evaluation.asked
    /\ evaluation.result.matched
    /\ evaluation.proc_info = [cmdline |-> <<"git", "clone", "install">>, cwd |-> "/tmp"]
    /\ evaluation.lineage = <<"git", "python3">>
    /\ evaluation.pattern.base_confidence = 900
    /\ evaluation.result.confidence = 990

(* ------------------ the poller and a raising callback ------------------ *)
\* Two pids; a scan may find any of them new or ended, and the observer
\* callback may raise for any of the events of the scan.
ObservedShapes == {OtherProc, PipProc}

ScanEvents(previous_pids, current_pids, shapes) ==
    {<<"process_started", p>> : p \in current_pids \ previous_pids}
    \cup {<<"command_detected", p>> :
             p \in {q \in current_pids \ previous_pids : shapes[q].interesting}}
    \cup {<<"process_ended", p>> : p \in previous_pids \ current_pids}

InitObserved ==
    /\ now = 0
    /\ current_state = "startup"
    /\ startup_time = 0
    /\ monitoring_only = TRUE
    /\ state_file = NoFile
    /\ loop_pc = "looping"
    /\ activity_detector = TRUE
    /\ process_monitor = "polling"
    /\ processes = {}
    /\ active_activities = <<>>
    /\ detection_history = <<>>
    /\ error_history = <<>>
    /\ last = Idle
    /\ policy_query = NoQuery
    /\ allowlist_query = NoQuery
    /\ admission = NoQuery
    /\ evaluation = [op |-> "none"]

\* _monitor_loop: one round of the while loop, _scan_processes followed by
\* _detect_process_changes
ObservedPollCycle ==
    /\ process_monitor = "polling"
    /\ \E current_pids \in SUBSET SnapshotPids :
       \E shapes \in [current_pids \ processes -> ObservedShapes] :
       \E raising \in SUBSET ScanEvents(processes, current_pids, shapes) :
         LET D == [active_activities |-> active_activities,
                   detection_history |-> detection_history,
                   error_history |-> error_history]
             S == scan_with_observer(D, processes, current_pids, shapes,
                                     process_monitor, now, raising)
         IN  /\ current_pids # processes
             /\ Len(detection_history)
                  + Cardinality({p \in DOMAIN shapes : shapes[p].interesting}) <= MaxHist
             /\ processes' = S.tree
             /\ active_activities' = S.D.active_activities
             /\ detection_history' = S.D.detection_history
             /\ error_history' = S.D.error_history
             /\ evaluation' = [op |-> "poll_cycle", previous_pids |-> processes,
                               current_pids |-> current_pids, shapes |-> shapes,
                               raising |-> raising, delivered |-> S.delivered,
                               printed |-> S.printed]
    /\ UNCHANGED <<now, mgr_vars, process_monitor, last, policy_query, allowlist_query,
                   admission>>

NextObserved == ObservedPollCycle

SpecObserved == InitObserved /\ [][NextObserved]_vars

(* --------------- properties: the poller and a raising callback --------- *)
\* C38: whatever callbacks raise in a scan, the process table ends as the scan
\* found it, the events of every new and every ended pid of the scan are
\* delivered (started and command-detected for the new pids in turn, then ended),
\* the detector's callbacks have run for them, and the poller goes on polling.
C38_RaisingCallbackIsolated ==
    [][evaluation'.op = "poll_cycle"
         => LET e == evaluation'
                D == [active_activities |-> active_activities,
                      detection_history |-> detection_history,
                      error_history |-> error_history]
                R == detect_process_changes(D, e.previous_pids, e.current_pids, e.shapes,
                                            process_monitor, now)
            IN  /\ processes' = e.current_pids
                /\ Range(e.delivered)
                       = ScanEvents(e.previous_pids, e.current_pids, e.shapes)
                /\ Len(e.delivered) = Cardinality(Range(e.delivered))
                /\ active_activities' = R.active_activities
                /\ detection_history' = R.detection_history
                /\ error_history' = R.error_history
                /\ e.printed = Cardinality(e.raising)
                /\ process_monitor' = "polling"]_vars

\* the observer raised on the first new pid of a scan that found two new
\* processes, and the second one is in the process table and the activity table
C38_Witness ==
    /\ evaluation.op = "poll_cycle"
    /\ evaluation.previous_pids = {}
    /\ evaluation.current_pids = {1, 2}
    /\ <<"process_started", 1>> \in evaluation.raising
    /\ processes = {1, 2}
    /\ TableIndex(active_activities, 2) # 0

(* -------------------------- get_lineage, per call ---------------------- *)
\* A process tree of up to two entries next to the container init: a parent
\* link points to the init, to an entry or to itself (a cycle), or to a pid that
\* is not in the tree. The tree stays as it is while calls are made.
TreePids == {2, 3}
ParentPids == {1, 2, 3, 7}

Trees == UNION {[D -> ParentPids] : D \in SUBSET TreePids}

InitLineage ==
    /\ now = 0
    /\ current_state = "startup"
    /\ startup_time = 0
    /\ monitoring_only = TRUE
    /\ state_file = NoFile
    /\ loop_pc = "constructed"
    /\ activity_detector = TRUE
    /\ process_monitor = "polling"
    /\ processes = {}
    /\ active_activities = <<>>
    /\ detection_history = <<>>
    /\ error_history = <<>>
    /\ last = Idle
    /\ policy_query = NoQuery
    /\ allowlist_query = NoQuery
    /\ admission = NoQuery
    /\ \E tree \in Trees :
         evaluation = [tree |-> tree, pc |-> "idle", pid |-> 0, current_pid |-> 0,
                       lineage |-> <<>>, rounds |-> 0]

LineageFrame ==
    UNCHANGED <<now, mgr_vars, det_vars, last, policy_query, allowlist_query, admission>>

\* lineage = []; current_pid = pid
GetLineageCalled ==
    /\ evaluation.pc # "loop"
    /\ \E pid \in TreePids \cup {container_init_pid, 7} :
         evaluation' = [evaluation EXCEPT !.pc = "loop", !.pid = pid, !.current_pid = pid,
                                          !.lineage = <<>>, !.rounds = 0]
    /\ LineageFrame

LineageIteration ==
    /\ evaluation.pc = "loop"
    /\ lineage_loop_guard(evaluation.tree, evaluation)
    /\ evaluation' = lineage_iteration(evaluation.tree, evaluation)
    /\ LineageFrame

\* the while condition fails: return lineage
LineageReturned ==
    /\ evaluation.pc = "loop"
    /\ ~lineage_loop_guard(evaluation.tree, evaluation)
    /\ evaluation' = [evaluation EXCEPT !.pc = "returned"]
    /\ LineageFrame

NextLineage ==
    \/ GetLineageCalled
    \/ LineageIteration
    \/ LineageReturned

SpecLineage == InitLineage /\ [][NextLineage]_vars

(* ---------------------- properties: get_lineage ------------------------ *)
\* C39 (as claimed): a call returns at most 50 entries.
C39_AtMostFiftyEntries ==
    evaluation.pc = "returned" => Len(evaluation.lineage) <= 50

\* C39 (amended): a call ends after at most 51 rounds of the loop, each of
\* which adds one entry, and returns at most 51 entries, for every tree,
\* cyclic parent links and links that never reach the container init included.
C39_AtMostFiftyOneEntries ==
    /\ Len(evaluation.lineage) = evaluation.rounds
    /\ evaluation.rounds <= 51
    /\ evaluation.rounds = 51 => evaluation.pc = "returned"

\* a call on a tree whose parent links form a cycle has returned 51 entries
C39_Witness ==
    /\ evaluation.pc = "returned"
    /\ evaluation.tree = (2 :> 3 @@ 3 :> 2)
    /\ evaluation.pid = 2
    /\ Len(evaluation.lineage) = 51

\* C40 (as claimed): the returned lineage starts with the immediate parent of
\* pid and holds neither pid itself nor the container init.
C40_LineageStartsAtParent ==
    evaluation.pc = "returned"
        => /\ evaluation.pid \notin Range(evaluation.lineage)
           /\ container_init_pid \notin Range(evaluation.lineage)
           /\ (evaluation.lineage # <<>> /\ evaluation.pid \in DOMAIN evaluation.tree)
                 => evaluation.lineage[1] = evaluation.tree[evaluation.pid]

\* what holds instead: the returned lineage of a pid of the tree starts with the
\* pid itself, every further entry is the parent of the entry before it, and
\* the container init is not in it
C40_LineageStartsAtProcess ==
    evaluation.pc = "returned"
        => /\ container_init_pid \notin Range(evaluation.lineage)
           /\ evaluation.lineage # <<>> => evaluation.lineage[1] = evaluation.pid
           /\ \A i \in 2..Len(evaluation.lineage) :
                 evaluation.lineage[i] = evaluation.tree[evaluation.lineage[i - 1]]

====
